---- MODULE Spec2Model ----
(***************************************************************************)
(* Model of the sequential-thinking server (src/index.ts) and of the part  *)
(* of GraphRenderer (src/visualization/graphRenderer.ts) that the request  *)
(* handler runs on every submission.                                       *)
(*                                                                         *)
(* A JavaScript value is a record with a type tag t and one payload field  *)
(* per type: n (number), s (identifier-like string), w (free text, as a    *)
(* sequence of one-character strings), b (boolean), a (array of numbers).  *)
(* A string is carried either by s or by w.                                *)
(***************************************************************************)
EXTENDS Integers, Sequences, FiniteSets, TLC

VARIABLES
  thoughtHistory,  \* SequentialThinkingServer.thoughtHistory
  branches,        \* SequentialThinkingServer.branches, own keys in insertion order
  promptContext,   \* the PromptContext singleton
  request,         \* arguments of the tool call handled last
  response,        \* what the tool call handled last returned (or that it threw)
  reportedTotals,  \* totalThoughts of every success response so far
  reportedProgress,\* thoughtNumber, declared totalThoughts and progress of every success so far
  allSucceeded,    \* every tool call so far returned a success response
  calls,           \* number of tool calls handled so far
  subject,         \* the argument of a private method run on its own
  outcome,         \* whether that method has returned, and what it left or returned
  activations      \* the request handler's calls in the order it was invoked: how
                   \* far each has run, and the record it is working on

vars == <<thoughtHistory, branches, promptContext, request, response,
          reportedTotals, reportedProgress, allSucceeded, calls, subject, outcome,
          activations>>

-----------------------------------------------------------------------------
(* Bound of the model *)

MaxCalls == 2

\* the longest dependencies array handed to assessThoughtQuality on its own
MaxDependencies == 4

\* the largest thoughtNumber handed to assessThoughtQuality on its own
MaxThoughtNumber == 5

\* the most tokens of a text built from Vocabulary
MaxTokens == 3

\* the longest history handed to calculateAlignmentTrend on its own
MaxRecords == 6

\* the longest history the remaining-thoughts estimates are applied to
MaxEstimated == 2

\* the most plain thoughts a session has stored before its calls are followed
MaxStored == 10

-----------------------------------------------------------------------------
(* JavaScript values *)

JsUndefined == [t |-> "undefined", n |-> 0, s |-> "", w |-> <<>>, b |-> FALSE, a |-> <<>>]

JsNumber(k) == [t |-> "number", n |-> k, s |-> "", w |-> <<>>, b |-> FALSE, a |-> <<>>]

JsString(x) == [t |-> "string", n |-> 0, s |-> x, w |-> <<>>, b |-> FALSE, a |-> <<>>]

JsText(cs) == [t |-> "string", n |-> 0, s |-> "", w |-> cs, b |-> FALSE, a |-> <<>>]

JsBoolean(x) == [t |-> "boolean", n |-> 0, s |-> "", w |-> <<>>, b |-> x, a |-> <<>>]

JsArray(xs) == [t |-> "array", n |-> 0, s |-> "", w |-> <<>>, b |-> FALSE, a |-> xs]

\* an array of strings
JsWords(ws) == [t |-> "array", n |-> 0, s |-> "", w |-> <<>>, b |-> FALSE, a |-> ws]

\* ToBoolean: what `!x`, `x && y`, `x || y` and `if (x)` test
Truthy(v) ==
  CASE v.t = "undefined" -> FALSE
    [] v.t = "number"    -> v.n # 0
    [] v.t = "string"    -> v.s # "" \/ v.w # <<>>
    [] v.t = "boolean"   -> v.b
    [] OTHER             -> TRUE

\* the typeof operator (an array is an "object")
TypeOf(v) == IF v.t = "array" THEN "object" ELSE v.t

\* the .length property as the renderer reads it (undefined on a number or boolean)
LengthOf(v) ==
  CASE v.t = "array"  -> Len(v.a)
    [] v.t = "string" -> IF v.w # <<>> THEN Len(v.w) ELSE 1
    [] OTHER          -> 0

\* property names every object inherits from Object.prototype
InheritedProperties ==
  {"constructor", "toString", "valueOf", "hasOwnProperty", "isPrototypeOf",
   "propertyIsEnumerable", "toLocaleString", "__proto__"}

Max(x, y) == IF x >= y THEN x ELSE y

\* floor(p / q) for q # 0
FloorDiv(p, q) == IF q > 0 THEN p \div q ELSE (-p) \div (-q)

-----------------------------------------------------------------------------
(* extractKeywords, on texts as character sequences *)

UpperCaseLetters ==
  <<"A", "B", "C", "D", "E", "F", "G", "H", "I", "J", "K", "L", "M",
    "N", "O", "P", "Q", "R", "S", "T", "U", "V", "W", "X", "Y", "Z">>

LowerCaseLetters ==
  <<"a", "b", "c", "d", "e", "f", "g", "h", "i", "j", "k", "l", "m",
    "n", "o", "p", "q", "r", "s", "t", "u", "v", "w", "x", "y", "z">>

DigitChars == <<"0", "1", "2", "3", "4", "5", "6", "7", "8", "9">>

WhiteSpace == {" ", "\t", "\n"}

Range(f) == {f[i] : i \in DOMAIN f}

\* the characters \w matches
WordChars == Range(UpperCaseLetters) \cup Range(LowerCaseLetters)
               \cup Range(DigitChars) \cup {"_"}

LowerChar(c) ==
  IF c \in Range(UpperCaseLetters)
    THEN LowerCaseLetters[CHOOSE i \in DOMAIN UpperCaseLetters : UpperCaseLetters[i] = c]
    ELSE c

\* text.toLowerCase()
ToLowerCase(text) == [i \in 1..Len(text) |-> LowerChar(text[i])]

IsWordOrSpace(c) == c \in WordChars \cup WhiteSpace

\* .replace(/[^\w\s]/g, '')
StripPunctuation(text) == SelectSeq(text, IsWordOrSpace)

\* the elements of xs at the positions where mask is TRUE, in order
RECURSIVE KeepAt(_, _, _)
KeepAt(xs, mask, i) ==
  IF i > Len(xs) THEN <<>>
  ELSE (IF mask[i] THEN <<xs[i]>> ELSE <<>>) \o KeepAt(xs, mask, i + 1)

\* the positions at which a run of characters other than white space starts,
\* in ascending order
TokenStarts(text) ==
  LET StartsToken(i) == text[i] \notin WhiteSpace /\ (i = 1 \/ text[i - 1] \in WhiteSpace)
  IN  SelectSeq([i \in 1..Len(text) |-> i], StartsToken)

\* the position at which the run starting at position i ends
TokenEnd(text, i) ==
  CHOOSE j \in i..Len(text) :
    /\ \A k \in i..j : text[k] \notin WhiteSpace
    /\ j = Len(text) \/ text[j + 1] \in WhiteSpace

\* the runs of characters other than white space, in order
Tokens(text, starts) ==
  [k \in 1..Len(starts) |-> SubSeq(text, starts[k], TokenEnd(text, starts[k]))]

\* .split(/\s+/): a run of white space separates once, so an empty token comes
\* first when the text starts with white space (or is empty) and last when it
\* ends with white space
SplitWhitespace(text) ==
  (IF text = <<>> \/ text[1] \in WhiteSpace THEN << <<>> >> ELSE <<>>)
    \o Tokens(text, TokenStarts(text))
    \o (IF text # <<>> /\ text[Len(text)] \in WhiteSpace THEN << <<>> >> ELSE <<>>)

StopWords ==
  { <<"a", "b", "o", "u", "t">>, <<"a", "b", "o", "v", "e">>,
    <<"a", "c", "r", "o", "s", "s">>, <<"a", "f", "t", "e", "r">>,
    <<"a", "g", "a", "i", "n">> }

MinWordLength == 4

TopKeywords == 5

IsLongWord(word) == Len(word) > MinWordLength

IsNotStopWord(word) == word \notin StopWords

\* the two .filter() calls
FilterWords(tokens) == SelectSeq(SelectSeq(tokens, IsLongWord), IsNotStopWord)

\* wordCounts[word] once the counting loop is over
CountOf(word, words) == Cardinality({i \in DOMAIN words : words[i] = word})

DigitValue(c) == (CHOOSE i \in DOMAIN DigitChars : DigitChars[i] = c) - 1

RECURSIVE NumericValue(_)
NumericValue(word) ==
  IF word = <<>> THEN 0
  ELSE 10 * NumericValue(SubSeq(word, 1, Len(word) - 1)) + DigitValue(word[Len(word)])

\* digit strings of up to this many digits are array indices (all are below
\* 2^32 - 1); longer digit strings are not used in the texts of this model
MaxIndexDigits == 9

\* a property key that is an array index: a canonical numeric string
IsArrayIndex(word) ==
  /\ word # <<>>
  /\ \A i \in DOMAIN word : word[i] \in Range(DigitChars)
  /\ Len(word) = 1 \/ word[1] # "0"
  /\ Len(word) <= MaxIndexDigits

\* insertion of x into a sequence kept in ascending rank, after its equals
RECURSIVE InsertSorted(_, _, _)
InsertSorted(x, xs, rank) ==
  IF xs = <<>> THEN <<x>>
  ELSE IF rank[x] < rank[Head(xs)] THEN <<x>> \o xs
       ELSE <<Head(xs)>> \o InsertSorted(x, Tail(xs), rank)

\* Array.prototype.sort with the comparator rank[a] - rank[b]: stable
RECURSIVE StableSort(_, _)
StableSort(xs, rank) ==
  IF xs = <<>> THEN <<>>
  ELSE InsertSorted(xs[Len(xs)], StableSort(SubSeq(xs, 1, Len(xs) - 1), rank), rank)

\* Object.entries(wordCounts): array-index keys first, in ascending numeric
\* order, then the other keys in the order they were first inserted
ObjectKeys(words) ==
  LET first    == [i \in DOMAIN words |-> \A j \in 1..(i - 1) : words[j] # words[i]]
      distinct == KeepAt(words, first, 1)
      isIndex  == [i \in DOMAIN distinct |-> IsArrayIndex(distinct[i])]
      isOther  == [i \in DOMAIN distinct |-> ~IsArrayIndex(distinct[i])]
      indices  == KeepAt(distinct, isIndex, 1)
      value    == [x \in Range(indices) |-> NumericValue(x)]
  IN  StableSort(indices, value) \o KeepAt(distinct, isOther, 1)

extractKeywords(text) ==
  LET words == FilterWords(SplitWhitespace(StripPunctuation(ToLowerCase(text))))
      keys   == ObjectKeys(words)
      \* .sort((a, b) => b[1] - a[1])
      rank   == [x \in Range(keys) |-> 0 - CountOf(x, words)]
      sorted == StableSort(keys, rank)
  IN  SubSeq(sorted, 1, IF Len(sorted) < TopKeywords THEN Len(sorted) ELSE TopKeywords)

-----------------------------------------------------------------------------
(* Collaborators whose code lies in the analytics directory: what each returns *)
(* for one submission is an input of the tool call, the record ext:          *)
(*   classifierThrows  PromptAnalyzer fails on a prompt that is no string    *)
(*   detectorThrows    a heuristic stage raises an unexpected exception      *)
(*   contradicts       ContradictionDetector reports a conflict              *)
(*   alignment         PromptAnalyzer's promptAlignment, 0..10               *)
(*   relevance         PromptAnalyzer's promptRelevance of the prompt's goal *)
(*                     to the thought, in tenths, 0..10                      *)
(*   strategies, reasoningTypes   lengths of the recommendation lists        *)

External(ct, dt, c, al, rel, st, rt) ==
  [classifierThrows |-> ct, detectorThrows |-> dt, contradicts |-> c,
   alignment |-> al, relevance |-> rel, strategies |-> st, reasoningTypes |-> rt]

\* alignment below this carries a drift warning
DriftThreshold == 4

\* contradictionDetector.checkContradictions(thought, history)
checkContradictions(thought, history, ext) ==
  IF ext.contradicts /\ history # <<>>
    THEN [hasContradictions |-> TRUE,
          details |-> JsArray(<<history[Len(history)].thoughtNumber.n>>)]
    ELSE [hasContradictions |-> FALSE, details |-> JsUndefined]

\* promptAnalyzer.analyzeThoughtAlignment(thought, metadata)
analyzeThoughtAlignment(thought, ext) ==
  [promptAlignment |-> JsNumber(ext.alignment),
   promptRelevance |-> JsArray(<<ext.relevance>>),
   driftWarning    |-> IF ext.alignment < DriftThreshold
                         THEN JsString("drift") ELSE JsUndefined]

\* intelligenceMaximizationModule.generateRecommendations(...)
generateRecommendations(ext) ==
  [present |-> TRUE, strategies |-> ext.strategies, reasoningTypes |-> ext.reasoningTypes]

NoRecommendations == [present |-> FALSE, strategies |-> 0, reasoningTypes |-> 0]

\* new PromptContext()
NewPromptContext == [initialized |-> FALSE, prompt |-> JsUndefined]

\* promptContext.initializeWithPrompt(prompt, analyzer)
initializeWithPrompt(prompt) == [initialized |-> TRUE, prompt |-> prompt]

\* whether initializeWithPrompt(prompt, analyzer) throws
initializeThrows(prompt, ext) == ext.classifierThrows /\ TypeOf(prompt) # "string"

-----------------------------------------------------------------------------
(* validateThoughtData *)

\* no quality object
NoQuality ==
  [defined |-> FALSE, coherence |-> 0, depth |-> 0, relevance |-> 0,
   qualityScore |-> 0, feedback |-> <<>>]

\* a quality object { coherence, depth, relevance, qualityScore, feedback }
Quality(c, d, r, score, feedback) ==
  [defined |-> TRUE, coherence |-> c, depth |-> d, relevance |-> r,
   qualityScore |-> score, feedback |-> feedback]

\* the object literal validateThoughtData returns: the caller's quality,
\* keywords and insightValue are copied like the other optional fields, the
\* fields the literal does not name are unset
ThoughtDataOf(data) ==
  [thought            |-> data.thought,
   thoughtNumber      |-> data.thoughtNumber,
   totalThoughts      |-> data.totalThoughts,
   nextThoughtNeeded  |-> data.nextThoughtNeeded,
   isRevision         |-> data.isRevision,
   revisesThought     |-> data.revisesThought,
   branchFromThought  |-> data.branchFromThought,
   branchId           |-> data.branchId,
   phase              |-> data.phase,
   dependencies       |-> data.dependencies,
   complexity         |-> data.complexity,
   quality            |-> data.quality,
   keywords           |-> data.keywords,
   insightValue       |-> data.insightValue,
   contradictions     |-> JsUndefined,
   promptAlignment    |-> JsUndefined,
   promptRelevance    |-> JsUndefined,
   driftWarning       |-> JsUndefined,
   intelligenceRecommendations |-> NoRecommendations]

Thrown(message) == [ok |-> FALSE, error |-> message]

Returned == [ok |-> TRUE, error |-> ""]

\* validateThoughtData testing totalThoughts before thoughtNumber
validateThoughtData_TotalFirst(data) ==
  IF ~data.isObject
    THEN Thrown("Cannot read properties of undefined (reading 'thought')")
  ELSE IF ~Truthy(data.thought) \/ TypeOf(data.thought) # "string"
    THEN Thrown("Invalid thought: must be a string")
  ELSE IF ~Truthy(data.totalThoughts) \/ TypeOf(data.totalThoughts) # "number"
    THEN Thrown("Invalid totalThoughts: must be a number")
  ELSE IF ~Truthy(data.thoughtNumber) \/ TypeOf(data.thoughtNumber) # "number"
    THEN Thrown("Invalid thoughtNumber: must be a number")
  ELSE IF TypeOf(data.nextThoughtNeeded) # "boolean"
    THEN Thrown("Invalid nextThoughtNeeded: must be a boolean")
  ELSE Returned

\* validateThoughtData without the test of nextThoughtNeeded
validateThoughtData_NoFlagTest(data) ==
  IF ~data.isObject
    THEN Thrown("Cannot read properties of undefined (reading 'thought')")
  ELSE IF ~Truthy(data.thought) \/ TypeOf(data.thought) # "string"
    THEN Thrown("Invalid thought: must be a string")
  ELSE IF ~Truthy(data.thoughtNumber) \/ TypeOf(data.thoughtNumber) # "number"
    THEN Thrown("Invalid thoughtNumber: must be a number")
  ELSE IF ~Truthy(data.totalThoughts) \/ TypeOf(data.totalThoughts) # "number"
    THEN Thrown("Invalid totalThoughts: must be a number")
  ELSE Returned

\* validateThoughtData(input): the Error it throws, or that it returns
validateThoughtData(data) ==
  IF ~data.isObject
    THEN Thrown("Cannot read properties of undefined (reading 'thought')")
  ELSE IF ~Truthy(data.thought) \/ TypeOf(data.thought) # "string"
    THEN Thrown("Invalid thought: must be a string")
  ELSE IF ~Truthy(data.thoughtNumber) \/ TypeOf(data.thoughtNumber) # "number"
    THEN Thrown("Invalid thoughtNumber: must be a number")
  ELSE IF ~Truthy(data.totalThoughts) \/ TypeOf(data.totalThoughts) # "number"
    THEN Thrown("Invalid totalThoughts: must be a number")
  ELSE IF TypeOf(data.nextThoughtNeeded) # "boolean"
    THEN Thrown("Invalid nextThoughtNeeded: must be a boolean")
  ELSE Returned

-----------------------------------------------------------------------------
(* assessThoughtQuality *)

DefaultSubScore == 5

PenaltyScore == 3

MaxCoherence == 8

ShallowWords == 30

DeepWords == 100

DeepScore == 8

PlanningLimit == 3

LateRelevance == 4

ConnectFeedback == "Consider how this thought connects to previous thinking"

DepthFeedback == "This thought could be explored in more depth"

PlanningFeedback == "Consider moving from planning to execution"

\* thought.dependencies && thought.dependencies.length > 0
HasDependencies(t) == Truthy(t.dependencies) /\ LengthOf(t.dependencies) > 0

coherenceOf(t) ==
  IF HasDependencies(t)
    THEN (IF DefaultSubScore + LengthOf(t.dependencies) < MaxCoherence
            THEN DefaultSubScore + LengthOf(t.dependencies) ELSE MaxCoherence)
  ELSE IF t.thoughtNumber.n > 1 THEN PenaltyScore
  ELSE DefaultSubScore

\* thought.thought.split(/\s+/).length
wordCount(t) == Len(SplitWhitespace(t.thought.w))

depthOf(t) ==
  IF wordCount(t) < ShallowWords THEN PenaltyScore
  ELSE IF wordCount(t) > DeepWords THEN DeepScore
  ELSE DefaultSubScore

relevanceOf(t) ==
  IF t.phase = JsString("Planning") /\ t.thoughtNumber.n > PlanningLimit
    THEN LateRelevance ELSE DefaultSubScore

\* the feedback strings in the order of the pushes
feedbackOf(t) ==
  (IF ~HasDependencies(t) /\ t.thoughtNumber.n > 1 THEN <<ConnectFeedback>> ELSE <<>>)
  \o (IF wordCount(t) < ShallowWords THEN <<DepthFeedback>> ELSE <<>>)
  \o (IF t.phase = JsString("Planning") /\ t.thoughtNumber.n > PlanningLimit
        THEN <<PlanningFeedback>> ELSE <<>>)

\* Math.round((coherence + depth + relevance) / 3): a third of an integer is
\* never within a rounding error of a half
qualityScoreOf(c, d, r) == FloorDiv(2 * (c + d + r) + 3, 6)

\* Math.round((depth * 0.4 + coherence * 0.3 + relevance * 0.3) * bonus) with
\* bonus 1.2 for a thought with dependencies, else 1: in hundredths, and no
\* sub-scores the function produces put the product within a rounding error
\* of a half
insightValueOf(c, d, r, connected) ==
  FloorDiv(2 * (4 * d + 3 * c + 3 * r) * (IF connected THEN 12 ELSE 10) + 100, 200)

\* the thought as assessThoughtQuality leaves it
assessThoughtQuality(t) ==
  [t EXCEPT
     !.quality = Quality(coherenceOf(t), depthOf(t), relevanceOf(t),
                         qualityScoreOf(coherenceOf(t), depthOf(t), relevanceOf(t)),
                         feedbackOf(t)),
     !.insightValue = JsNumber(insightValueOf(coherenceOf(t), depthOf(t), relevanceOf(t),
                                              HasDependencies(t)))]

-----------------------------------------------------------------------------
(* processThought, stage by stage *)

\* the auto-adjustment with the comparison turned round
AutoAdjust_Lowering(t) ==
  IF t.thoughtNumber.n < t.totalThoughts.n
    THEN [t EXCEPT !.totalThoughts = t.thoughtNumber]
    ELSE t

\* the auto-adjustment raising the total only past the thoughtNumber's successor
AutoAdjust_OffByOne(t) ==
  IF t.thoughtNumber.n > t.totalThoughts.n + 1
    THEN [t EXCEPT !.totalThoughts = t.thoughtNumber]
    ELSE t

\* "Auto-adjust totalThoughts if needed"
AutoAdjust(t) ==
  IF t.thoughtNumber.n > t.totalThoughts.n
    THEN [t EXCEPT !.totalThoughts = t.thoughtNumber]
    ELSE t

\* the default phase written over whatever phase the caller declared
DefaultPhase_Overwriting(t) ==
  [t EXCEPT !.phase = IF t.thoughtNumber.n = 1 THEN JsString("Planning")
                                                ELSE JsString("Execution")]

\* "Set a default phase if not provided"
DefaultPhase(t) ==
  IF ~Truthy(t.phase)
    THEN [t EXCEPT !.phase = IF t.thoughtNumber.n = 1 THEN JsString("Planning")
                                                     ELSE JsString("Execution")]
    ELSE t

\* the enrichment scoring the alignment whether or not a prompt context exists
Enrich_AlwaysAligned(t, history, ctx, ext) ==
  LET keyed == [t EXCEPT !.keywords = JsWords(extractKeywords(t.thought.w))]
      found == checkContradictions(keyed, history, ext)
      noted == IF found.hasContradictions
                 THEN [keyed EXCEPT !.contradictions = found.details]
                 ELSE keyed
      data  == analyzeThoughtAlignment(noted.thought, ext)
  IN  [noted EXCEPT !.promptAlignment = data.promptAlignment,
                    !.promptRelevance = data.promptRelevance,
                    !.driftWarning = data.driftWarning,
                    !.intelligenceRecommendations = generateRecommendations(ext)]

\* keywords, contradictions and, once the prompt context is initialized,
\* alignment and recommendations
Enrich(t, history, ctx, ext) ==
  LET keyed == [t EXCEPT !.keywords = JsWords(extractKeywords(t.thought.w))]
      found == checkContradictions(keyed, history, ext)
      noted == IF found.hasContradictions
                 THEN [keyed EXCEPT !.contradictions = found.details]
                 ELSE keyed
      data  == analyzeThoughtAlignment(noted.thought, ext)
  IN  IF ctx.initialized
        THEN [noted EXCEPT !.promptAlignment = data.promptAlignment,
                           !.promptRelevance = data.promptRelevance,
                           !.driftWarning = data.driftWarning,
                           !.intelligenceRecommendations = generateRecommendations(ext)]
        ELSE noted

\* a revision written over the record it revises
PushThought_ReplaceRevised(history, t) ==
  IF Truthy(t.isRevision) /\ t.revisesThought.t = "number"
       /\ t.revisesThought.n \in DOMAIN history
    THEN [history EXCEPT ![t.revisesThought.n] = t]
    ELSE Append(history, t)

\* this.thoughtHistory.push(validatedInput)
PushThought(history, t) == Append(history, t)

\* Object.keys(this.branches)
BranchKeys(br) == [i \in DOMAIN br |-> br[i].id]

HasOwnBranch(br, key) == \E i \in DOMAIN br : br[i].id = key

\* "Handle branching" is entered
IsBranching(t) == Truthy(t.branchFromThought) /\ Truthy(t.branchId)

\* this.branches[id] is an inherited member of Object.prototype, which has no
\* push method: the call throws a TypeError
BranchingThrows(br, t) ==
  /\ IsBranching(t)
  /\ ~HasOwnBranch(br, t.branchId.s)
  /\ t.branchId.s \in InheritedProperties

\* branching that starts the branch index afresh for a branch id not seen yet
HandleBranching_Afresh(br, t) ==
  IF ~IsBranching(t) THEN br
  ELSE IF HasOwnBranch(br, t.branchId.s)
    THEN [i \in DOMAIN br |->
            IF br[i].id = t.branchId.s
              THEN [br[i] EXCEPT !.thoughts = Append(@, t)]
              ELSE br[i]]
  ELSE <<[id |-> t.branchId.s, thoughts |-> <<t>>]>>

\* the branch index after "Handle branching" ran to its end
HandleBranching(br, t) ==
  IF ~IsBranching(t) THEN br
  ELSE LET key     == t.branchId.s
           created == IF HasOwnBranch(br, key) THEN br
                      ELSE Append(br, [id |-> key, thoughts |-> <<>>])
       IN  [i \in DOMAIN created |->
              IF created[i].id = key
                THEN [created[i] EXCEPT !.thoughts = Append(@, t)]
                ELSE created[i]]

\* GraphRenderer.generateDependencyGraph(thoughts) throws a TypeError: a
\* non-empty dependencies value without forEach, or (in groupThoughtsByBranch)
\* a branchId that names an inherited member of Object.prototype
generateDependencyGraphThrows(thoughts) ==
  \/ \E i \in DOMAIN thoughts :
       /\ Truthy(thoughts[i].dependencies)
       /\ LengthOf(thoughts[i].dependencies) > 0
       /\ thoughts[i].dependencies.t # "array"
  \/ \E i \in DOMAIN thoughts :
       /\ Truthy(thoughts[i].branchId)
       /\ thoughts[i].branchId.s \in InheritedProperties

\* GraphRenderer.groupThoughtsByBranch throws a TypeError: branches[branchId]
\* is an inherited member of Object.prototype, which has no push
groupThoughtsByBranchThrows(thoughts) ==
  \E i \in DOMAIN thoughts :
    Truthy(thoughts[i].branchId) /\ thoughts[i].branchId.s \in InheritedProperties

\* one step of the renderer's forEach: a thought with a branchId joins the
\* group of that id, which is created on its first thought
GroupThought(groups, t) ==
  IF ~Truthy(t.branchId) THEN groups
  ELSE IF HasOwnBranch(groups, t.branchId.s)
    THEN [i \in DOMAIN groups |->
            IF groups[i].id = t.branchId.s
              THEN [groups[i] EXCEPT !.thoughts = Append(@, t)]
              ELSE groups[i]]
  ELSE Append(groups, [id |-> t.branchId.s, thoughts |-> <<t>>])

\* the groups after the thoughts from position i on are visited
RECURSIVE GroupFrom(_, _, _)
GroupFrom(thoughts, i, groups) ==
  IF i > Len(thoughts) THEN groups
  ELSE GroupFrom(thoughts, i + 1, GroupThought(groups, thoughts[i]))

\* GraphRenderer.groupThoughtsByBranch(thoughts), in the order of Object.keys
groupThoughtsByBranch(thoughts) == GroupFrom(thoughts, 1, <<>>)

\* width of the progress bar
BarWidth == 20

\* Math.floor(width * (percentage / 100)) for percentage = tn / tt * 100
CompletedCells(t) == FloorDiv(BarWidth * t.thoughtNumber.n, t.totalThoughts.n)

\* String.prototype.repeat throws a RangeError on a negative count
createProgressBarThrows(t) ==
  CompletedCells(t) < 0 \/ BarWidth - CompletedCells(t) < 0

\* --- numbers are IEEE 754 doubles. A positive double is the record
\* [limbs, scale]: the natural number whose digits in base 2^LimbBits are
\* limbs (most significant first), times 2^(-scale). The integers divided
\* here are below 2^17 in absolute value. Zero is the record with limbs <<0>>.

MantissaBits == 53

LimbBits == 13

Limb == 2 ^ LimbBits

\* p / q for p, q > 0 brought into [1, 2): p / q = (a / b) * 2^e
RECURSIVE Normalize(_, _, _)
Normalize(a, b, e) ==
  IF a >= 2 * b THEN Normalize(a, 2 * b, e + 1)
  ELSE IF a < b THEN Normalize(2 * a, b, e - 1)
  ELSE [a |-> a, b |-> b, e |-> e]

\* n more limbs of the expansion of r / b (r < b), and the remainder left
RECURSIVE LongDivision(_, _, _, _)
LongDivision(r, b, n, limbs) ==
  IF n = 0 THEN [limbs |-> limbs, rem |-> r]
  ELSE LongDivision((r * Limb) % b, b, n - 1, Append(limbs, (r * Limb) \div b))

\* limbs + 1
RECURSIVE Increment(_)
Increment(limbs) ==
  IF limbs = <<>> THEN <<1>>
  ELSE IF limbs[Len(limbs)] < Limb - 1
    THEN SubSeq(limbs, 1, Len(limbs) - 1) \o <<limbs[Len(limbs)] + 1>>
  ELSE Increment(SubSeq(limbs, 1, Len(limbs) - 1)) \o <<0>>

\* limbs * m for 0 < m < Limb: the limbs from position i + 1 on are done (acc)
RECURSIVE TimesSmall(_, _, _, _, _)
TimesSmall(limbs, m, i, carry, acc) ==
  IF i = 0 THEN (IF carry > 0 THEN <<carry>> \o acc ELSE acc)
  ELSE TimesSmall(limbs, m, i - 1, (limbs[i] * m + carry) \div Limb,
                  <<(limbs[i] * m + carry) % Limb>> \o acc)

\* bit k of a number, counted from the least significant bit 0
BitOf(limbs, k) ==
  IF k \div LimbBits >= Len(limbs) THEN 0
  ELSE (limbs[Len(limbs) - (k \div LimbBits)] \div (2 ^ (k % LimbBits))) % 2

\* the number of bits of a number (0 for 0)
BitLength(limbs) ==
  IF \A k \in 0..(LimbBits * Len(limbs) - 1) : BitOf(limbs, k) = 0 THEN 0
  ELSE 1 + CHOOSE k \in 0..(LimbBits * Len(limbs) - 1) :
             /\ BitOf(limbs, k) = 1
             /\ \A h \in (k + 1)..(LimbBits * Len(limbs) - 1) : BitOf(limbs, h) = 0

\* floor(limbs / 2^k)
ShiftRight(limbs, k) ==
  [i \in 1..(Len(limbs) - (k \div LimbBits)) |->
     (limbs[i] \div (2 ^ (k % LimbBits)))
       + (IF i > 1 THEN (limbs[i - 1] % (2 ^ (k % LimbBits))) * (2 ^ (LimbBits - (k % LimbBits)))
                   ELSE 0)]

\* the number a few limbs write
RECURSIVE LimbsValue(_)
LimbsValue(limbs) ==
  IF limbs = <<>> THEN 0
  ELSE Limb * LimbsValue(SubSeq(limbs, 1, Len(limbs) - 1)) + limbs[Len(limbs)]

\* limbs / 2^d rounded to nearest, ties to even
RoundToNearestEven(limbs, d) ==
  IF d <= 0 THEN limbs
  ELSE IF /\ BitOf(limbs, d - 1) = 1
          /\ \/ BitOf(limbs, d) = 1
             \/ \E k \in 0..(d - 2) : BitOf(limbs, k) = 1
    THEN Increment(ShiftRight(limbs, d))
  ELSE ShiftRight(limbs, d)

\* the quotient of a normalized division, rounded by the remainder
RoundedQuotient(division, b) ==
  IF 2 * division.rem > b
       \/ (2 * division.rem = b /\ division.limbs[Len(division.limbs)] % 2 = 1)
    THEN Increment(division.limbs)
    ELSE division.limbs

\* the double p / q of two positive integers held exactly
DivideNormalized(n) ==
  [limbs |-> RoundedQuotient(LongDivision(n.a - n.b, n.b, (MantissaBits - 1) \div LimbBits, <<1>>),
                             n.b),
   scale |-> (MantissaBits - 1) - n.e]

DoubleDivide(p, q) == DivideNormalized(Normalize(p, q, 0))

\* an exact product rounded to a double
RoundProduct(product, scale, length) ==
  [limbs |-> RoundToNearestEven(product, length - MantissaBits),
   scale |-> IF length > MantissaBits THEN scale - (length - MantissaBits) ELSE scale]

\* the double x * m for an integer 0 < m < Limb
ScaledProduct(product, scale) == RoundProduct(product, scale, BitLength(product))

DoubleTimes(x, m) == ScaledProduct(TimesSmall(x.limbs, m, Len(x.limbs), 0, <<>>), x.scale)

\* Math.round(x) for a positive double: floor(x + 0.5)
MathRound(x) ==
  IF x.scale <= 0 THEN LimbsValue(x.limbs) * (2 ^ (0 - x.scale))
  ELSE LimbsValue(ShiftRight(x.limbs, x.scale)) + BitOf(x.limbs, x.scale - 1)

Abs(k) == IF k < 0 THEN 0 - k ELSE k

\* the double of an integer 0 <= k < Limb
DoubleOf(k) == [limbs |-> <<k>>, scale |-> 0]

\* p / q for integers p >= 0 and q > 0
DoubleQuotient(p, q) == IF p = 0 THEN DoubleOf(0) ELSE DoubleDivide(p, q)

\* a number written with n limbs
Padded(limbs, n) == [i \in 1..(n - Len(limbs)) |-> 0] \o limbs

\* a + b for two numbers of n limbs each: the limbs from position i + 1 on
\* are done (acc)
RECURSIVE AddLimbs(_, _, _, _, _)
AddLimbs(a, b, i, carry, acc) ==
  IF i = 0 THEN (IF carry > 0 THEN <<carry>> \o acc ELSE acc)
  ELSE AddLimbs(a, b, i - 1, (a[i] + b[i] + carry) \div Limb,
                <<(a[i] + b[i] + carry) % Limb>> \o acc)

\* a + b
SumOfLimbs(a, b) ==
  AddLimbs(Padded(a, Max(Len(a), Len(b))), Padded(b, Max(Len(a), Len(b))),
           Max(Len(a), Len(b)), 0, <<>>)

\* limbs * 2^k
ShiftLeft(limbs, k) ==
  TimesSmall(limbs, 2 ^ (k % LimbBits), Len(limbs), 0, <<>>)
    \o [i \in 1..(k \div LimbBits) |-> 0]

\* a * b: b's limbs from position i on are still to be multiplied in
RECURSIVE LongMultiplication(_, _, _, _)
LongMultiplication(a, b, i, acc) ==
  IF i > Len(b) THEN acc
  ELSE LongMultiplication(a, b, i + 1,
                          SumOfLimbs(acc \o <<0>>, TimesSmall(a, b[i], Len(a), 0, <<>>)))

\* the one element of a singleton
TheOne(S) == CHOOSE v \in S : TRUE

\* the double a * b
Product(a, b) ==
  ScaledProduct(LongMultiplication(a.limbs, b.limbs, 1, <<>>), a.scale + b.scale)

\* the double x * y, the operands being evaluated once
DoubleMultiply(x, y) == TheOne({Product(a, b) : a \in {x}, b \in {y}})

\* the limbs of x when it is written with the scale s >= x.scale
AtScale(x, s) == ShiftLeft(x.limbs, s - x.scale)

\* the double a + b
Sum(a, b) ==
  ScaledProduct(SumOfLimbs(AtScale(a, Max(a.scale, b.scale)), AtScale(b, Max(a.scale, b.scale))),
                Max(a.scale, b.scale))

\* the double x + y, the operands being evaluated once
DoubleAdd(x, y) == TheOne({Sum(a, b) : a \in {x}, b \in {y}})

\* a < b for two numbers of n limbs each
LimbsLess(a, b) ==
  \E i \in DOMAIN a : a[i] < b[i] /\ \A j \in 1..(i - 1) : a[j] = b[j]

\* a < b for two numbers of whatever lengths
ShorterLess(a, b) ==
  LimbsLess(Padded(a, Max(Len(a), Len(b))), Padded(b, Max(Len(a), Len(b))))

\* x < y
DoubleLess(x, y) ==
  \E a \in {x}, b \in {y} :
    \E m \in {AtScale(a, Max(a.scale, b.scale))}, n \in {AtScale(b, Max(a.scale, b.scale))} :
      ShorterLess(m, n)

\* Math.min(x, y)
DoubleMin(x, y) == TheOne({IF DoubleLess(b, a) THEN b ELSE a : a \in {x}, b \in {y}})

\* the least integer not below a double a >= 0
Ceiling(a) ==
  IF a.scale <= 0 THEN LimbsValue(a.limbs) * (2 ^ (0 - a.scale))
  ELSE LimbsValue(ShiftRight(a.limbs, a.scale))
         + (IF \E k \in 0..(a.scale - 1) : BitOf(a.limbs, k) = 1 THEN 1 ELSE 0)

\* Math.ceil(x) for a double x >= 0
MathCeil(x) == TheOne({Ceiling(a) : a \in {x}})

\* Math.round(progress) for progress = (thoughtNumber / totalThoughts) * 100,
\* where createProgressBar returned: both numbers are of one sign
RoundedProgress(t) ==
  MathRound(DoubleTimes(DoubleDivide(Abs(t.thoughtNumber.n), Abs(t.totalThoughts.n)), 100))

\* String(k) for an integer k
RECURSIVE ToDecimal(_)
ToDecimal(k) ==
  IF k < 0 THEN <<"-">> \o ToDecimal(0 - k)
  ELSE IF k < 10 THEN <<DigitChars[k + 1]>>
  ELSE ToDecimal(k \div 10) \o <<DigitChars[(k % 10) + 1]>>

\* `${Math.round(progress)}%`
ProgressText(t) == ToDecimal(RoundedProgress(t)) \o <<"%">>

\* thoughtNumber / totalThoughts > 0.75
PastThreeQuarters(t) ==
  IF t.totalThoughts.n > 0
    THEN 4 * t.thoughtNumber.n > 3 * t.totalThoughts.n
    ELSE 4 * t.thoughtNumber.n < 3 * t.totalThoughts.n

LowAlignment == 5

\* the guidance with the strategy hint pushed before the alignment warning
provideStrategicGuidance_StrategyFirst(t) ==
  (IF PastThreeQuarters(t) /\ t.phase # JsString("Verification")
     THEN <<"phase-transition">> ELSE <<>>)
  \o (IF t.intelligenceRecommendations.present
           /\ t.intelligenceRecommendations.strategies > 0
        THEN <<"strategy">> ELSE <<>>)
  \o (IF t.promptAlignment.t # "undefined" /\ t.promptAlignment.n < LowAlignment
        THEN <<"low-alignment">> ELSE <<>>)
  \o (IF t.intelligenceRecommendations.present
           /\ t.intelligenceRecommendations.reasoningTypes > 0
        THEN <<"reasoning-type">> ELSE <<>>)

provideStrategicGuidance(t) ==
  (IF PastThreeQuarters(t) /\ t.phase # JsString("Verification")
     THEN <<"phase-transition">> ELSE <<>>)
  \o (IF t.promptAlignment.t # "undefined" /\ t.promptAlignment.n < LowAlignment
        THEN <<"low-alignment">> ELSE <<>>)
  \o (IF t.intelligenceRecommendations.present
           /\ t.intelligenceRecommendations.strategies > 0
        THEN <<"strategy">> ELSE <<>>)
  \o (IF t.intelligenceRecommendations.present
           /\ t.intelligenceRecommendations.reasoningTypes > 0
        THEN <<"reasoning-type">> ELSE <<>>)

\* .slice(0, k)
Slice(xs, k) == SubSeq(xs, 1, IF Len(xs) < k THEN Len(xs) ELSE k)

GuidanceCap == 2

ComplexThoughts == 10

ComplexBranches == 2

MediumThoughts == 5

MediumRevisions == 1

estimateComplexity(history, br) ==
  LET thoughtCount  == Len(history)
      revisionCount == Cardinality({i \in DOMAIN history : Truthy(history[i].isRevision)})
      branchCount   == Len(br)
  IN  IF thoughtCount > ComplexThoughts \/ branchCount > ComplexBranches
        THEN "complex"
      ELSE IF thoughtCount > MediumThoughts \/ revisionCount > MediumRevisions
                \/ branchCount > 0
        THEN "medium"
      ELSE "simple"

NoResponse ==
  [kind |-> "none", isError |-> FALSE, error |-> "",
   thoughtNumber |-> JsUndefined, totalThoughts |-> JsUndefined,
   nextThoughtNeeded |-> JsUndefined, branches |-> <<>>, phase |-> JsUndefined,
   complexity |-> JsUndefined, progress |-> <<>>, strategicGuidance |-> <<>>,
   promptAlignment |-> JsUndefined, driftWarning |-> JsUndefined,
   recommendations |-> FALSE]

\* the object the catch block returns: { error, status: 'failed' }, isError: true
ErrorResponse(message) ==
  [NoResponse EXCEPT !.kind = "error", !.isError = TRUE, !.error = message]

\* the object the try block returns
SuccessResponse(t, history, br) ==
  [kind |-> "ok", isError |-> FALSE, error |-> "",
   thoughtNumber |-> t.thoughtNumber, totalThoughts |-> t.totalThoughts,
   nextThoughtNeeded |-> t.nextThoughtNeeded, branches |-> BranchKeys(br),
   phase |-> t.phase,
   complexity |-> IF Truthy(t.complexity) THEN t.complexity
                  ELSE JsString(estimateComplexity(history, br)),
   progress |-> ProgressText(t),
   strategicGuidance |-> Slice(Slice(provideStrategicGuidance(t), GuidanceCap), GuidanceCap),
   promptAlignment |-> t.promptAlignment, driftWarning |-> t.driftWarning,
   recommendations |-> t.intelligenceRecommendations.present]

Outcome(history, br, resp) == [history |-> history, branches |-> br, response |-> resp]

\* the response built from the history and the branch index as they were
\* before the record was stored
StoreAndRespond_EstimateBefore(t, history, br, pushed, branched) ==
  IF BranchingThrows(br, t)
    THEN Outcome(pushed, br,
                 ErrorResponse("this.branches[validatedInput.branchId].push is not a function"))
  ELSE IF generateDependencyGraphThrows(pushed)
    THEN Outcome(pushed, branched, ErrorResponse("TypeError in generateDependencyGraph"))
  ELSE IF createProgressBarThrows(t)
    THEN Outcome(pushed, branched, ErrorResponse("Invalid count value"))
  ELSE Outcome(pushed, branched, SuccessResponse(t, history, br))

\* the part of processThought after the enrichment: append, branch bookkeeping,
\* rendering and the response; an exception of any stage ends in the catch
\* block with whatever the stages before it already wrote
StoreAndRespond(t, history, br, pushed, branched) ==
  IF BranchingThrows(br, t)
    THEN Outcome(pushed, br,
                 ErrorResponse("this.branches[validatedInput.branchId].push is not a function"))
  ELSE IF generateDependencyGraphThrows(pushed)
    THEN Outcome(pushed, branched, ErrorResponse("TypeError in generateDependencyGraph"))
  ELSE IF createProgressBarThrows(t)
    THEN Outcome(pushed, branched, ErrorResponse("Invalid count value"))
  ELSE Outcome(pushed, branched, SuccessResponse(t, pushed, branched))

\* the try block once the input is validated
Ingest(t, history, br) ==
  StoreAndRespond(t, history, br, PushThought(history, t), HandleBranching(br, t))

\* the catch block for an exception raised before the append
Reject(validated, history, br) ==
  Outcome(history, br,
          ErrorResponse(IF validated.ok THEN "unexpected exception" ELSE validated.error))

\* processThought(input): the history and branch index it leaves and the
\* object it returns
processThought(input, history, br, ctx, ext) ==
  IF ~validateThoughtData(input).ok \/ ext.detectorThrows
    THEN Reject(validateThoughtData(input), history, br)
    ELSE Ingest(Enrich(DefaultPhase(AutoAdjust(ThoughtDataOf(input))), history, ctx, ext),
                history, br)

-----------------------------------------------------------------------------
(* The request handlers *)

\* the handler's promise rejects: the exception leaves the tool boundary
ThrownResponse == [NoResponse EXCEPT !.kind = "thrown"]

UnknownToolResponse ==
  [NoResponse EXCEPT !.kind = "unknown-tool", !.isError = TRUE, !.error = "Unknown tool"]

\* thoughtData && thoughtData.thoughtNumber === 1
IsFirstThought(args) == args.isObject /\ args.thoughtNumber = JsNumber(1)

\* the prompt context when processThought is entered
ContextFor(args, ctx) ==
  IF IsFirstThought(args) THEN initializeWithPrompt(args.thought) ELSE ctx

\* the number a progress string shows before its "%"
PercentOf(progress) == NumericValue(SubSeq(progress, 1, Len(progress) - 1))

\* the handler returns what processThought returned
Return(args, out) ==
  /\ thoughtHistory' = out.history
  /\ branches' = out.branches
  /\ response' = out.response
  /\ allSucceeded' = (allSucceeded /\ out.response.kind = "ok")
  /\ reportedTotals' =
       IF out.response.kind = "ok"
         THEN reportedTotals \cup {out.response.totalThoughts.n}
         ELSE reportedTotals
  /\ reportedProgress' =
       IF out.response.kind = "ok"
         THEN reportedProgress \cup {[thoughtNumber |-> args.thoughtNumber.n,
                                      declaredTotal |-> args.totalThoughts.n,
                                      percent       |-> PercentOf(out.response.progress)]}
         ELSE reportedProgress

\* CallToolRequestSchema handler, request.params.name === "sequentialthinking"
CallSequentialThinking(args, ext) ==
  /\ calls < MaxCalls
  /\ calls' = calls + 1
  /\ request' = args
  /\ IF IsFirstThought(args) /\ initializeThrows(args.thought, ext)
       THEN /\ response' = ThrownResponse
            /\ allSucceeded' = FALSE
            /\ UNCHANGED <<thoughtHistory, branches, promptContext, reportedTotals,
                           reportedProgress>>
       ELSE /\ promptContext' = ContextFor(args, promptContext)
            /\ Return(args, processThought(args, thoughtHistory, branches,
                                           ContextFor(args, promptContext), ext))
  /\ UNCHANGED <<subject, outcome, activations>>

\* CallToolRequestSchema handler, any other tool name
CallUnknownTool ==
  /\ calls < MaxCalls
  /\ calls' = calls + 1
  /\ response' = UnknownToolResponse
  /\ allSucceeded' = FALSE
  /\ UNCHANGED <<thoughtHistory, branches, promptContext, request, reportedTotals,
                 reportedProgress, subject, outcome, activations>>

-----------------------------------------------------------------------------
(* Inputs *)

PlanText ==
  <<"P", "l", "a", "n", " ", "t", "h", "e", " ", "a", "p", "p", "r", "o", "a", "c", "h",
    " ", "t", "o", " ", "s", "o", "r", "t", " ", "a", " ", "l", "i", "s", "t">>

VerifyText ==
  <<"V", "e", "r", "i", "f", "y", " ", "s", "o", "r", "t", "i", "n", "g", ":", " ",
    "t", "h", "e", " ", "s", "o", "r", "t", "i", "n", "g", " ", "w", "o", "r", "k", "s">>

\* request.params.arguments is missing
NoArguments ==
  [isObject |-> FALSE, thought |-> JsUndefined, thoughtNumber |-> JsUndefined,
   totalThoughts |-> JsUndefined, nextThoughtNeeded |-> JsUndefined,
   isRevision |-> JsUndefined, revisesThought |-> JsUndefined,
   branchFromThought |-> JsUndefined, branchId |-> JsUndefined,
   phase |-> JsUndefined, dependencies |-> JsUndefined, complexity |-> JsUndefined,
   quality |-> NoQuality, keywords |-> JsUndefined, insightValue |-> JsUndefined]

\* an arguments object with the four required fields only
Arguments(th, tn, tt, ntn) ==
  [NoArguments EXCEPT !.isObject = TRUE, !.thought = th, !.thoughtNumber = tn,
                      !.totalThoughts = tt, !.nextThoughtNeeded = ntn]

ThoughtNumbers == {-2, -1, 0, 1, 2}

TotalThoughts == {-1, 0, 1, 2}

\* every pairing of a thoughtNumber with a totalThoughts, all else well-typed
NumberedArguments ==
  {Arguments(JsText(PlanText), JsNumber(tn), JsNumber(tt), JsBoolean(TRUE)) :
     tn \in ThoughtNumbers, tt \in TotalThoughts}

\* missing, empty and mistyped required fields
MistypedArguments ==
  LET text == JsText(PlanText)
      two  == JsNumber(2)
      yes  == JsBoolean(TRUE)
  IN  {NoArguments,
       Arguments(JsUndefined, two, two, yes),
       Arguments(JsUndefined, JsNumber(1), two, yes),
       Arguments(JsText(<<>>), JsNumber(1), two, yes),
       Arguments(JsNumber(5), two, two, yes),
       Arguments(text, JsString("2"), two, yes),
       Arguments(text, JsUndefined, two, yes),
       Arguments(text, two, JsUndefined, yes),
       Arguments(text, two, two, JsUndefined),
       Arguments(text, two, two, JsString("true")),
       Arguments(JsUndefined, two, two, JsUndefined),
       Arguments(text, JsNumber(0), JsString("2"), yes),
       Arguments(text, JsUndefined, JsUndefined, JsUndefined)}

\* submissions that use the optional fields
OptionalArguments ==
  LET base == Arguments(JsText(PlanText), JsNumber(2), JsNumber(2), JsBoolean(FALSE))
      one  == JsNumber(1)
  IN  {[base EXCEPT !.isRevision = JsBoolean(TRUE), !.revisesThought = one],
       [base EXCEPT !.branchFromThought = one, !.branchId = JsString("alt")],
       [base EXCEPT !.branchFromThought = one, !.branchId = JsString("b2"),
                    !.thought = JsText(VerifyText)],
       [base EXCEPT !.branchId = JsString("alt")],
       [base EXCEPT !.branchFromThought = one],
       [base EXCEPT !.branchFromThought = one, !.branchId = JsString("constructor")],
       [base EXCEPT !.branchFromThought = one, !.branchId = JsString("alt"),
                    !.thoughtNumber = JsNumber(-1)],
       [base EXCEPT !.phase = JsString("Verification")],
       [base EXCEPT !.phase = JsString("Planning")],
       [base EXCEPT !.dependencies = JsArray(<<1>>)],
       [base EXCEPT !.dependencies = JsText(<<"1">>)],
       [base EXCEPT !.complexity = JsString("complex")],
       [base EXCEPT !.quality = Quality(10, 10, 10, 10, <<>>), !.insightValue = JsNumber(10),
                    !.keywords = JsWords(<< <<"m", "i", "n", "e">> >>)],
       [base EXCEPT !.thoughtNumber = one, !.thought = JsText(VerifyText),
                    !.isRevision = JsBoolean(TRUE), !.revisesThought = one]}

\* thought 6 of 5, thought 1 of 5, and thoughts whose progress is no whole
\* percentage: 2 of 3, 1 of 8, 23 of 40
ScenarioArguments ==
  {Arguments(JsText(PlanText), JsNumber(6), JsNumber(5), JsBoolean(TRUE)),
   Arguments(JsText(PlanText), JsNumber(1), JsNumber(5), JsBoolean(TRUE)),
   Arguments(JsText(PlanText), JsNumber(2), JsNumber(3), JsBoolean(TRUE)),
   Arguments(JsText(PlanText), JsNumber(1), JsNumber(8), JsBoolean(TRUE)),
   Arguments(JsText(PlanText), JsNumber(23), JsNumber(40), JsBoolean(TRUE))}

\* negative numbers a little past their total: thought -22 of -21, thought -21 of -21
NegativeArguments ==
  {Arguments(JsText(PlanText), JsNumber(-22), JsNumber(-21), JsBoolean(TRUE)),
   Arguments(JsText(PlanText), JsNumber(-21), JsNumber(-21), JsBoolean(TRUE))}

Payloads ==
  NumberedArguments \cup MistypedArguments \cup OptionalArguments
    \cup ScenarioArguments \cup NegativeArguments

\* the collaborators find nothing wrong and recommend a strategy and a reasoning type
Benign == External(FALSE, FALSE, FALSE, 8, 8, 1, 1)

\* what the collaborators do during one call
Externals ==
  {Benign,
   External(TRUE, FALSE, TRUE, 3, 2, 0, 0),
   External(FALSE, TRUE, FALSE, 8, 8, 1, 1),
   External(FALSE, FALSE, FALSE, 3, 2, 1, 1),
   External(FALSE, FALSE, FALSE, 8, 8, 0, 1)}

\* the submissions on which every behaviour of the collaborators is tried
VariedArguments ==
  {Arguments(JsText(PlanText), JsNumber(1), JsNumber(2), JsBoolean(TRUE)),
   Arguments(JsText(PlanText), JsNumber(2), JsNumber(2), JsBoolean(TRUE)),
   Arguments(JsUndefined, JsNumber(1), JsNumber(2), JsBoolean(TRUE)),
   [Arguments(JsText(PlanText), JsNumber(2), JsNumber(2), JsBoolean(FALSE))
      EXCEPT !.phase = JsString("Verification")]}

\* the tool calls of the model: every payload with benign collaborators, and
\* the varied ones with every behaviour of the collaborators
Calls == (Payloads \X {Benign}) \cup (VariedArguments \X Externals)

-----------------------------------------------------------------------------
(* Specification *)

\* the server after construction
Constructed ==
  /\ thoughtHistory = <<>>
  /\ branches = <<>>
  /\ promptContext = NewPromptContext
  /\ request = NoArguments
  /\ response = NoResponse
  /\ reportedTotals = {}
  /\ reportedProgress = {}
  /\ allSucceeded = TRUE
  /\ calls = 0

\* a private method that has not returned, with what its argument holds so far
Pending(value) == [returned |-> FALSE, value |-> value]

\* a private method that has returned, with what it left or returned
Finished(value) == [returned |-> TRUE, value |-> value]

Init ==
  /\ Constructed
  /\ subject = JsUndefined
  /\ outcome = Pending(JsUndefined)
  /\ activations = <<>>

Next ==
  \/ \E call \in Calls : CallSequentialThinking(call[1], call[2])
  \/ CallUnknownTool

Spec == Init /\ [][Next]_vars

server == <<thoughtHistory, branches, promptContext, request, response,
            reportedTotals, reportedProgress, allSucceeded, calls>>

-----------------------------------------------------------------------------
(* assessThoughtQuality on its own: every record of QualitySubjects is       *)
(* handed to the method once                                                 *)

\* n one-letter words with one space between them, after a space and before
\* a space when asked
Words(n, leading, trailing) ==
  [i \in 1..((IF leading THEN 1 ELSE 0) + 2 * n - 1 + (IF trailing THEN 1 ELSE 0)) |->
     IF (i - (IF leading THEN 1 ELSE 0)) % 2 = 1 THEN "w" ELSE " "]

\* word counts at and next to the two thresholds, and the 10 words of the scenario
WordCounts ==
  {1, 10, ShallowWords - 1, ShallowWords, ShallowWords + 1, DeepWords - 1, DeepWords,
   DeepWords + 1}

\* no dependencies field, and arrays of 0 to MaxDependencies thought numbers
DependencyLists ==
  {JsUndefined} \cup {JsArray([i \in 1..k |-> i]) : k \in 0..MaxDependencies}

QualitySubjects ==
  {[ThoughtDataOf(Arguments(JsText(Words(n, leading, trailing)), JsNumber(tn),
                            JsNumber(MaxThoughtNumber), JsBoolean(TRUE)))
      EXCEPT !.dependencies = deps, !.phase = JsString(phase)] :
     n \in WordCounts, leading \in BOOLEAN, trailing \in BOOLEAN,
     tn \in 1..MaxThoughtNumber, deps \in DependencyLists,
     phase \in {"Planning", "Execution"}}

QualityInit ==
  /\ Constructed
  /\ subject \in QualitySubjects
  /\ outcome = Pending(subject)
  /\ activations = <<>>

AssessThoughtQuality ==
  /\ ~outcome.returned
  /\ outcome' = Finished(assessThoughtQuality(subject))
  /\ UNCHANGED <<server, subject, activations>>

QualityNext == AssessThoughtQuality

QualitySpec == QualityInit /\ [][QualityNext]_vars

-----------------------------------------------------------------------------
(* extractKeywords on its own: every text of KeywordTexts is handed to the    *)
(* method once. No text holds a name objects inherit ("constructor",         *)
(* "__proto__"), whose count `wordCounts[word] || 0` does not start at 0.    *)

\* a word, the same word capitalized and punctuated, two tokens made of
\* digits, a stopword and a short word
Vocabulary ==
  << <<"s", "o", "r", "t", "e", "d">>,
     <<"I", "t", "e", "m", "s", ",">>,
     <<"i", "t", "e", "m", "s">>,
     <<"2", "2", "2", "2", "2">>,
     <<"1", "1", "1", "1", "1">>,
     <<"a", "b", "o", "u", "t">>,
     <<"l", "i", "s", "t">> >>

RECURSIVE JoinWithSpaces(_)
JoinWithSpaces(tokens) ==
  IF tokens = <<>> THEN <<>>
  ELSE IF Len(tokens) = 1 THEN tokens[1]
  ELSE tokens[1] \o <<" ">> \o JoinWithSpaces(Tail(tokens))

\* seven keywords of which the last comes twice
SevenWordsText ==
  <<"f", "i", "r", "s", "t", " ", "s", "e", "c", "o", "n", "d", " ", "t", "h", "i",
    "r", "d", " ", "f", "o", "u", "r", "t", "h", " ", "f", "i", "f", "t", "h", " ",
    "s", "i", "x", "t", "h", " ", "s", "e", "v", "e", "n", "t", "h", " ", "s", "e",
    "v", "e", "n", "t", "h">>

\* digits before and after words, a stopword, and white space at both ends
MixedText ==
  <<" ", "a", "b", "o", "u", "t", " ", "1", "2", "3", "4", "5", " ", "I", "t", "e",
    "m", "s", ",", " ", "9", "9", "9", "9", "9", " ", " ", "s", "o", "r", "t", "e",
    "d", " ", "1", "2", "3", "4", " ", "i", "t", "e", "m", "s", "\n">>

KeywordTexts ==
  {JoinWithSpaces(tokens) :
     tokens \in UNION {[1..k -> Range(Vocabulary)] : k \in 0..MaxTokens}}
    \cup {SevenWordsText, MixedText}

KeywordInit ==
  /\ Constructed
  /\ subject \in {JsText(text) : text \in KeywordTexts}
  /\ outcome = Pending(<<>>)
  /\ activations = <<>>

ExtractKeywords ==
  /\ ~outcome.returned
  /\ outcome' = Finished(extractKeywords(subject.w))
  /\ UNCHANGED <<server, subject, activations>>

KeywordNext == ExtractKeywords

KeywordSpec == KeywordInit /\ [][KeywordNext]_vars

-----------------------------------------------------------------------------
(* The request handler step by step. A call of the handler runs on the one    *)
(* JavaScript thread: once entered it runs until it returns or awaits, and   *)
(* another call is entered only then. Each call goes through the steps       *)
(* "validate", "enrich" and "store" (which also renders and answers) and is  *)
(* then "done". The collaborators are Benign.                                *)

\* a handler that awaits between the enrichment and the append
Awaits_BeforeStore == {"store"}

\* the steps before which the handler or processThought awaits: the handler
\* is declared async and holds no await, and processThought is synchronous
Awaits == {}

\* the tool calls stepped through
HandlerArguments == VariedArguments \cup ScenarioArguments \cup OptionalArguments

\* a call of the handler: its arguments, the step it is to take next, whether
\* it is suspended at an await, and the record processThought has built
Activation(args, pc, t) ==
  [args |-> args, pc |-> pc, suspended |-> pc \in Awaits, thought |-> t]

\* the call is on the stack
IsRunning(activation) == activation.pc # "done" /\ ~activation.suspended

\* the thread is free for call i: no other call is on the stack
MayRun(i) == \A j \in DOMAIN activations : j # i => ~IsRunning(activations[j])

\* the handler is entered: lines 937-945
Invoke(args) ==
  /\ Len(activations) < MaxCalls
  /\ MayRun(0)
  /\ request' = args
  /\ promptContext' = ContextFor(args, promptContext)
  /\ activations' = Append(activations, Activation(args, "validate", ThoughtDataOf(args)))
  /\ UNCHANGED <<thoughtHistory, branches, response, reportedTotals, reportedProgress,
                 allSucceeded, calls, subject, outcome>>

\* const validatedInput = this.validateThoughtData(input)
Validate(i) ==
  /\ activations[i].pc = "validate"
  /\ MayRun(i)
  /\ IF validateThoughtData(activations[i].args).ok
       THEN /\ activations' =
                 [activations EXCEPT ![i] = Activation(@.args, "enrich", @.thought)]
            /\ UNCHANGED response
       ELSE /\ activations' =
                 [activations EXCEPT ![i] = Activation(@.args, "done", @.thought)]
            /\ response' = Reject(validateThoughtData(activations[i].args),
                                  thoughtHistory, branches).response
  /\ UNCHANGED <<thoughtHistory, branches, promptContext, request, reportedTotals,
                 reportedProgress, allSucceeded, calls, subject, outcome>>

\* auto-adjustment, default phase, keywords, contradictions, alignment
EnrichThought(i) ==
  /\ activations[i].pc = "enrich"
  /\ MayRun(i)
  /\ activations' =
       [activations EXCEPT ![i] =
          Activation(@.args, "store",
                     Enrich(DefaultPhase(AutoAdjust(@.thought)), thoughtHistory,
                            promptContext, Benign))]
  /\ UNCHANGED <<server, subject, outcome>>

\* the append, the branch bookkeeping, the rendering and the response
Store(i) ==
  /\ activations[i].pc = "store"
  /\ MayRun(i)
  /\ activations' = [activations EXCEPT ![i] = Activation(@.args, "done", @.thought)]
  /\ thoughtHistory' = Ingest(activations[i].thought, thoughtHistory, branches).history
  /\ branches' = Ingest(activations[i].thought, thoughtHistory, branches).branches
  /\ response' = Ingest(activations[i].thought, thoughtHistory, branches).response
  /\ UNCHANGED <<promptContext, request, reportedTotals, reportedProgress,
                 allSucceeded, calls, subject, outcome>>

HandlerNext ==
  \/ \E args \in HandlerArguments : Invoke(args)
  \/ \E i \in DOMAIN activations : Validate(i)
  \/ \E i \in DOMAIN activations : EnrichThought(i)
  \/ \E i \in DOMAIN activations : Store(i)

HandlerSpec == Init /\ [][HandlerNext]_vars

-----------------------------------------------------------------------------
(* calculateAlignmentTrend, of the server and of GraphRenderer, on its own:   *)
(* every history of up to MaxRecords records is handed to each of them once  *)

\* t => t.promptAlignment !== undefined
HasAlignment(t) == t.promptAlignment # JsUndefined

\* .slice(-RecentThoughts)
RecentThoughts == 5

\* fewer scored thoughts than this are "Insufficient data"
MinimumForTrend == 3

\* .slice(-k)
LastOf(xs, k) == SubSeq(xs, IF Len(xs) > k THEN Len(xs) - k + 1 ELSE 1, Len(xs))

\* .sort((a, b) => a.thoughtNumber - b.thoughtNumber)
SortByThoughtNumber(thoughts) ==
  StableSort(thoughts, [t \in Range(thoughts) |-> t.thoughtNumber.n])

\* lastScore - firstScore over recentThoughts
TrendDifference(recentThoughts) ==
  recentThoughts[Len(recentThoughts)].promptAlignment.n - recentThoughts[1].promptAlignment.n

\* SequentialThinkingServer.calculateAlignmentTrend()
calculateAlignmentTrend(history) ==
  LET alignedThoughts == SortByThoughtNumber(SelectSeq(history, HasAlignment))
  IN  IF Len(alignedThoughts) < MinimumForTrend THEN "Insufficient data"
      ELSE IF TrendDifference(LastOf(alignedThoughts, RecentThoughts)) > 1 THEN "Improving"
      ELSE IF TrendDifference(LastOf(alignedThoughts, RecentThoughts)) < -1 THEN "Declining"
      ELSE "Stable"

\* GraphRenderer.calculateAlignmentTrend(thoughts): the same steps; the
\* labels come with an arrow and a colour, left out here
rendererAlignmentTrend(thoughts) ==
  LET alignedThoughts == SortByThoughtNumber(SelectSeq(thoughts, HasAlignment))
  IN  IF Len(alignedThoughts) < MinimumForTrend THEN "Insufficient data"
      ELSE IF TrendDifference(LastOf(alignedThoughts, RecentThoughts)) > 1 THEN "Improving"
      ELSE IF TrendDifference(LastOf(alignedThoughts, RecentThoughts)) < -1 THEN "Declining"
      ELSE "Stable"

\* no score, and scores 1, 2 and 3 apart
AlignmentValues == {JsUndefined, JsNumber(4), JsNumber(5), JsNumber(7)}

\* a stored record with a thoughtNumber and an alignment
Scored(tn, alignment) ==
  [ThoughtDataOf(Arguments(JsText(PlanText), JsNumber(tn), JsNumber(MaxRecords),
                           JsBoolean(TRUE)))
     EXCEPT !.promptAlignment = alignment]

\* thoughtNumber of the i-th of n submissions: in order, in reverse order,
\* and one number reused by all
Numberings == {"ascending", "descending", "reused"}

NumberOf(numbering, i, n) ==
  CASE numbering = "ascending"  -> i
    [] numbering = "descending" -> n + 1 - i
    [] OTHER                    -> 1

\* the history of n submissions with the given alignments and numbering
TrendHistory(n, alignments, numbering) ==
  [i \in 1..n |-> Scored(NumberOf(numbering, i, n), alignments[i])]

NoTrends == [server |-> "", renderer |-> ""]

TrendInit ==
  /\ Constructed
  /\ \E n \in 0..MaxRecords :
       \E alignments \in [1..n -> AlignmentValues], numbering \in Numberings :
         subject = TrendHistory(n, alignments, numbering)
  /\ outcome = Pending(NoTrends)
  /\ activations = <<>>

ServerTrend ==
  /\ outcome.value.server = ""
  /\ outcome' = [returned |-> outcome.value.renderer # "",
                 value |-> [outcome.value EXCEPT !.server = calculateAlignmentTrend(subject)]]
  /\ UNCHANGED <<server, subject, activations>>

RendererTrend ==
  /\ outcome.value.renderer = ""
  /\ outcome' = [returned |-> outcome.value.server # "",
                 value |-> [outcome.value EXCEPT !.renderer = rendererAlignmentTrend(subject)]]
  /\ UNCHANGED <<server, subject, activations>>

TrendNext == ServerTrend \/ RendererTrend

TrendSpec == TrendInit /\ [][TrendNext]_vars

\* ---------------------------------------------------------------------------
\* The remaining-thoughts estimates of the server and of the renderer, applied
\* to a history and a PromptMetadata (the subject).

\* PromptMetadata as far as the estimates read it: the number of goals and the
\* complexity
Metadata(goals, complexity) == [present |-> TRUE, goals |-> goals, complexity |-> complexity]

\* getMetadata() of a prompt context that was never initialized
NoMetadata == [present |-> FALSE, goals |-> 0, complexity |-> "simple"]

\* the decimal literal 0.k
Tenths(k) == DoubleQuotient(k, 10)

\* thoughts.reduce((latest, current) => current.thoughtNumber >
\* latest.thoughtNumber ? current : latest, thoughts[0]): the records from
\* position i on are still to be visited
RECURSIVE LatestFrom(_, _, _)
LatestFrom(thoughts, i, latest) ==
  IF i > Len(thoughts) THEN latest
  ELSE LatestFrom(thoughts, i + 1,
                  IF thoughts[i].thoughtNumber.n > latest.thoughtNumber.n
                    THEN thoughts[i] ELSE latest)

LatestThought(thoughts) == LatestFrom(thoughts, 1, thoughts[1])

\* Math.min(100, (thoughtNumber / totalThoughts) * 100)
ThoughtProgress(latest) ==
  DoubleMin(DoubleOf(100),
            DoubleMultiply(DoubleQuotient(latest.thoughtNumber.n, latest.totalThoughts.n),
                           DoubleOf(100)))

\* scores.reduce((sum, score) => sum + score, 0) over the records from
\* position i on
RECURSIVE SumOfScores(_, _)
SumOfScores(scored, i) ==
  IF i > Len(scored) THEN 0 ELSE scored[i].promptAlignment.n + SumOfScores(scored, i + 1)

\* the mean of the alignment scores, 5 when no record has one
AverageAlignment(thoughts) ==
  IF Len(SelectSeq(thoughts, HasAlignment)) > 0
    THEN DoubleQuotient(SumOfScores(SelectSeq(thoughts, HasAlignment), 1),
                        Len(SelectSeq(thoughts, HasAlignment)))
    ELSE DoubleOf(5)

\* t.promptRelevance && t.promptRelevance[`goal_${index}`] !== undefined &&
\* t.promptRelevance[`goal_${index}`] > 0.5 (relevances are kept in tenths)
IsRelevant(t, index) ==
  /\ Truthy(t.promptRelevance)
  /\ index + 1 \in DOMAIN t.promptRelevance.a
  /\ t.promptRelevance.a[index + 1] > 5

RelevantThoughts(thoughts, index) ==
  Cardinality({i \in DOMAIN thoughts : IsRelevant(thoughts[i], index)})

\* Math.max(2, simple ? 3 : medium ? 5 : 8)
ExpectedThoughts(complexity) ==
  Max(2, IF complexity = "simple" THEN 3 ELSE IF complexity = "medium" THEN 5 ELSE 8)

Min(x, y) == IF x <= y THEN x ELSE y

\* the server's calculateGoalCoverage: one percentage per goal
calculateGoalCoverage(history, metadata) ==
  IF ~metadata.present THEN <<>>
  ELSE [g \in 1..metadata.goals |->
          Min(100, MathRound(DoubleMultiply(
                     DoubleQuotient(RelevantThoughts(history, g - 1),
                                    ExpectedThoughts(metadata.complexity)),
                     DoubleOf(100))))]

RECURSIVE SumOfCoverage(_, _)
SumOfCoverage(coverage, i) ==
  IF i > Len(coverage) THEN 0 ELSE coverage[i] + SumOfCoverage(coverage, i + 1)

\* the server's goal coverage: the mean of the goals' percentages
ServerGoalCoverage(coverage) ==
  DoubleQuotient(SumOfCoverage(coverage, 1), Max(1, Len(coverage)))

\* the renderer's goal coverage: the share of the goals that have a relevant
\* thought, as a percentage
RendererGoalCoverage(thoughts, metadata) ==
  DoubleMultiply(
    DoubleQuotient(Cardinality({g \in 1..metadata.goals : RelevantThoughts(thoughts, g - 1) > 0}),
                   metadata.goals),
    DoubleOf(100))

\* phaseWeights, in tenths
PhaseWeights ==
  [p \in {"Planning", "Analysis", "Execution", "Verification"} |->
     CASE p = "Planning" -> 1 [] p = "Analysis" -> 3 [] p = "Execution" -> 5 [] OTHER -> 9]

\* (phaseWeights[latestThought.phase || 'Execution'] || 0.5) * 100, for a
\* phase that is unset or one of the four
PhaseProgress(latest) ==
  DoubleMultiply(Tenths(IF Truthy(latest.phase) /\ latest.phase.s \in DOMAIN PhaseWeights
                          THEN PhaseWeights[latest.phase.s] ELSE 5),
                 DoubleOf(100))

\* Math.round((thoughtProgress * 0.3) + (avgAlignment * 10 * 0.3) +
\*            (goalCoverage * 0.3) + (phaseProgress * 0.1))
WeightedProgress(thoughtProgress, avgAlignment, goalCoverage, phaseProgress) ==
  MathRound(
    DoubleAdd(
      DoubleAdd(
        DoubleAdd(DoubleMultiply(thoughtProgress, Tenths(3)),
                  DoubleMultiply(DoubleMultiply(avgAlignment, DoubleOf(10)), Tenths(3))),
        DoubleMultiply(goalCoverage, Tenths(3))),
      DoubleMultiply(phaseProgress, Tenths(1))))

\* the server's calculateOverallProgress
calculateOverallProgress(history, metadata) ==
  IF ~metadata.present \/ Len(history) = 0 THEN 0
  ELSE WeightedProgress(ThoughtProgress(LatestThought(history)),
                        AverageAlignment(history),
                        ServerGoalCoverage(calculateGoalCoverage(history, metadata)),
                        PhaseProgress(LatestThought(history)))

\* the renderer's calculateOverallProgress, for a history that is not empty
rendererOverallProgress(thoughts, metadata) ==
  WeightedProgress(ThoughtProgress(LatestThought(thoughts)),
                   AverageAlignment(thoughts),
                   RendererGoalCoverage(thoughts, metadata),
                   PhaseProgress(LatestThought(thoughts)))

\* the estimate when progress is very low
FallbackEstimate(complexity) ==
  IF complexity = "simple" THEN 5 ELSE IF complexity = "medium" THEN 8 ELSE 12

LowProgress == 10

\* what an estimate returns: a number, or a TypeError thrown
Estimated(k) == [kind |-> "number", n |-> k]

EstimateThrows == [kind |-> "throws", n |-> 0]

NotEstimated == [kind |-> "none", n |-> 0]

\* the server's estimate for the progress and the latest thoughtNumber n
RemainingThoughts(progress, n, complexity) ==
  IF progress < LowProgress THEN FallbackEstimate(complexity)
  ELSE Max(0, MathCeil(DoubleQuotient(n * 100, Max(1, progress))) - n)

\* the server's estimateRemainingThoughts
estimateRemainingThoughts(history, metadata) ==
  IF ~metadata.present \/ Len(history) = 0 THEN Estimated(0)
  ELSE Estimated(RemainingThoughts(calculateOverallProgress(history, metadata),
                                   LatestThought(history).thoughtNumber.n,
                                   metadata.complexity))

\* the renderer's estimate for the progress and the latest thoughtNumber n
Completion(progress, n, complexity) ==
  IF progress < LowProgress THEN FallbackEstimate(complexity)
  ELSE MathCeil(DoubleQuotient(n * 100, progress)) - n

\* the renderer's estimateCompletion: reading thoughts[0].thoughtNumber of an
\* empty history, or a field of metadata that is undefined, throws
estimateCompletion(thoughts, metadata) ==
  IF ~metadata.present \/ Len(thoughts) = 0 THEN EstimateThrows
  ELSE Estimated(Completion(rendererOverallProgress(thoughts, metadata),
                            LatestThought(thoughts).thoughtNumber.n,
                            metadata.complexity))

\* a stored record: thoughtNumber tn of tt, its default phase, and the
\* alignment and relevance (of the first goal, in tenths) the analysis gave it
Estimable(tn, tt, alignment, relevance) ==
  [DefaultPhase(AutoAdjust(ThoughtDataOf(Arguments(JsText(PlanText), JsNumber(tn),
                                                   JsNumber(tt), JsBoolean(TRUE)))))
     EXCEPT !.promptAlignment = alignment, !.promptRelevance = relevance]

\* not analysed, analysed as off the prompt, analysed as on the prompt
Analyses ==
  {[alignment |-> JsUndefined, relevance |-> JsUndefined],
   [alignment |-> JsNumber(0), relevance |-> JsArray(<<2>>)],
   [alignment |-> JsNumber(8), relevance |-> JsArray(<<8>>)]}

ShortPlan == 3

LongPlan == 40

EstimableRecords ==
  {Estimable(tn, tt, analysis.alignment, analysis.relevance) :
     tn \in 1..3, tt \in {ShortPlan, LongPlan}, analysis \in Analyses}

Metadatas ==
  {NoMetadata} \cup {Metadata(goals, complexity) :
                       goals \in 1..2, complexity \in {"simple", "medium", "complex"}}

NoEstimates == [server |-> NotEstimated, renderer |-> NotEstimated]

EstimateInit ==
  /\ Constructed
  /\ \E n \in 0..MaxEstimated :
       \E thoughts \in [1..n -> EstimableRecords], metadata \in Metadatas :
         subject = [thoughts |-> thoughts, metadata |-> metadata]
  /\ outcome = Pending(NoEstimates)
  /\ activations = <<>>

ServerEstimate ==
  /\ outcome.value.server = NotEstimated
  /\ outcome' = [returned |-> outcome.value.renderer # NotEstimated,
                 value |-> [outcome.value EXCEPT
                              !.server = estimateRemainingThoughts(subject.thoughts,
                                                                   subject.metadata)]]
  /\ UNCHANGED <<server, subject, activations>>

RendererEstimate ==
  /\ outcome.value.renderer = NotEstimated
  /\ outcome' = [returned |-> outcome.value.server # NotEstimated,
                 value |-> [outcome.value EXCEPT
                              !.renderer = estimateCompletion(subject.thoughts,
                                                              subject.metadata)]]
  /\ UNCHANGED <<server, subject, activations>>

EstimateNext == ServerEstimate \/ RendererEstimate

EstimateSpec == EstimateInit /\ [][EstimateNext]_vars

\* ---------------------------------------------------------------------------
\* Sessions that are already under way: the server has stored some plain
\* thoughts, branches and revisions before the calls that are followed.

\* thought 1 of a session and a later plain thought
OpeningArguments == Arguments(JsText(PlanText), JsNumber(1), JsNumber(2), JsBoolean(TRUE))

PlainArguments == Arguments(JsText(PlanText), JsNumber(2), JsNumber(2), JsBoolean(TRUE))

\* a thought that branches from thought 1 into the branch id
BranchArguments(id) ==
  [PlainArguments EXCEPT !.branchFromThought = JsNumber(1), !.branchId = JsString(id)]

\* a thought that revises thought 1
RevisionArguments ==
  [PlainArguments EXCEPT !.isRevision = JsBoolean(TRUE), !.revisesThought = JsNumber(1)]

BranchIds == <<"alt", "b2", "b3">>

\* the server's variables as one record
ServerState(history, br, ctx, args, resp, totals, progress, succeeded) ==
  [history |-> history, branches |-> br, context |-> ctx, request |-> args,
   response |-> resp, totals |-> totals, progress |-> progress, succeeded |-> succeeded]

AsConstructed ==
  ServerState(<<>>, <<>>, NewPromptContext, NoArguments, NoResponse, {}, {}, TRUE)

\* the server after the handler returned out for the call with args
Answered(state, args, out) ==
  ServerState(out.history, out.branches, ContextFor(args, state.context), args, out.response,
              IF out.response.kind = "ok"
                THEN state.totals \cup {out.response.totalThoughts.n} ELSE state.totals,
              IF out.response.kind = "ok"
                THEN state.progress \cup {[thoughtNumber |-> args.thoughtNumber.n,
                                           declaredTotal |-> args.totalThoughts.n,
                                           percent       |-> PercentOf(out.response.progress)]}
                ELSE state.progress,
              state.succeeded /\ out.response.kind = "ok")

\* the server after one more call of the tool
Submitted(state, args) ==
  TheOne({Answered(state, args, out) :
            out \in {processThought(args, state.history, state.branches,
                                    ContextFor(args, state.context), Benign)}})

\* the server after the calls from position i on
RECURSIVE AfterCalls(_, _, _)
AfterCalls(payloads, i, state) ==
  IF i > Len(payloads) THEN state
  ELSE TheOne({AfterCalls(payloads, i + 1, next) : next \in {Submitted(state, payloads[i])}})

\* a session of n plain thoughts, then b branching ones, then r revisions
Session(n, b, r) ==
  [i \in 1..n |-> IF i = 1 THEN OpeningArguments ELSE PlainArguments]
    \o [i \in 1..b |-> BranchArguments(BranchIds[i])]
    \o [i \in 1..r |-> RevisionArguments]

\* the calls that are followed: plain, branching and revising thoughts without
\* a complexity, a thought with its complexity, and a payload that is rejected
ComplexityArguments ==
  {PlainArguments, RevisionArguments, NoArguments,
   [PlainArguments EXCEPT !.complexity = JsString("simple")]}
    \cup {BranchArguments(BranchIds[i]) : i \in DOMAIN BranchIds}

ComplexityInit ==
  /\ \E n \in 0..MaxStored, b \in 0..2, r \in 0..1 :
       \E state \in {AfterCalls(Session(n, b, r), 1, AsConstructed)} :
         /\ thoughtHistory = state.history
         /\ branches = state.branches
         /\ promptContext = state.context
         /\ request = state.request
         /\ response = state.response
         /\ reportedTotals = state.totals
         /\ reportedProgress = state.progress
         /\ allSucceeded = state.succeeded
  /\ calls = 0
  /\ subject = JsUndefined
  /\ outcome = Pending(JsUndefined)
  /\ activations = <<>>

ComplexityNext ==
  \/ \E args \in ComplexityArguments : CallSequentialThinking(args, Benign)
  \/ CallUnknownTool

ComplexitySpec == ComplexityInit /\ [][ComplexityNext]_vars

-----------------------------------------------------------------------------
(* Properties *)

IsPrefix(xs, ys) == Len(xs) <= Len(ys) /\ SubSeq(ys, 1, Len(xs)) = xs

\* C1: whenever processThought returns an error response, thoughtHistory and
\* branches are exactly what they were before the call, whichever stage failed.
C1_FailedCallStoresNothing ==
  [][(calls' = calls + 1 /\ response'.kind = "error")
       => (thoughtHistory' = thoughtHistory /\ branches' = branches)]_vars

\* the field a required-field requirement fails on first, in the order thought,
\* thoughtNumber, totalThoughts, nextThoughtNeeded ("none" if all are met); a
\* missing arguments object has no thought, and a thoughtNumber or
\* totalThoughts of 0 counts as missing
FirstOffendingField(args) ==
  IF ~args.isObject \/ args.thought.t # "string" \/ (args.thought.s = "" /\ args.thought.w = <<>>)
    THEN "thought"
  ELSE IF args.thoughtNumber.t # "number" \/ args.thoughtNumber.n = 0
    THEN "thoughtNumber"
  ELSE IF args.totalThoughts.t # "number" \/ args.totalThoughts.n = 0
    THEN "totalThoughts"
  ELSE IF args.nextThoughtNeeded.t # "boolean"
    THEN "nextThoughtNeeded"
  ELSE "none"

\* the field an error message names
FieldNamedBy(message) ==
  CASE message = "Cannot read properties of undefined (reading 'thought')" -> "thought"
    [] message = "Invalid thought: must be a string" -> "thought"
    [] message = "Invalid thoughtNumber: must be a number" -> "thoughtNumber"
    [] message = "Invalid totalThoughts: must be a number" -> "totalThoughts"
    [] message = "Invalid nextThoughtNeeded: must be a boolean" -> "nextThoughtNeeded"
    [] OTHER -> "none"

C3_NeverThrows == response.kind # "thrown"

\* C4: the totalThoughts of a success response is max(submitted totalThoughts,
\* submitted thoughtNumber), hence at least thoughtNumber, and the stored record
\* keeps the same adjusted value.
C4_TotalAdjusted ==
  response.kind = "ok" =>
    /\ response.totalThoughts.n = Max(request.totalThoughts.n, request.thoughtNumber.n)
    /\ response.totalThoughts.n >= response.thoughtNumber.n
    /\ response.thoughtNumber = request.thoughtNumber
    /\ thoughtHistory # <<>>
    /\ thoughtHistory[Len(thoughtHistory)].totalThoughts = response.totalThoughts

\* thought 6 of 5 is answered with totalThoughts 6
C4_Witness ==
  /\ response.kind = "ok"
  /\ request.thoughtNumber.n = 6
  /\ request.totalThoughts.n = 5
  /\ response.totalThoughts.n = 6

\* C5 (as claimed): after successful submissions only, the totalThoughts of the
\* most recent success response is never less than the largest thoughtNumber of
\* any stored record.
C5_SessionTotalCoversHistory ==
  (allSucceeded /\ response.kind = "ok") =>
    \A i \in DOMAIN thoughtHistory :
      response.totalThoughts.n >= thoughtHistory[i].thoughtNumber.n

\* C5 (amended): every stored record's totalThoughts is at least that record's
\* own thoughtNumber, and a success response reports the total of the record it
\* stored; the total is kept per record, not per session.
C5_RecordTotalCoversOwnNumber ==
  /\ \A i \in DOMAIN thoughtHistory :
       thoughtHistory[i].totalThoughts.n >= thoughtHistory[i].thoughtNumber.n
  /\ response.kind = "ok" =>
       response.totalThoughts.n >= thoughtHistory[Len(thoughtHistory)].thoughtNumber.n

\* after successes only, an earlier record's thoughtNumber exceeds the total reported last
C5_Witness ==
  /\ allSucceeded
  /\ response.kind = "ok"
  /\ \E i \in DOMAIN thoughtHistory :
       thoughtHistory[i].thoughtNumber.n > response.totalThoughts.n

\* C6 (as claimed): the totalThoughts of a later success response is greater
\* than or equal to that of every earlier success response.
C6_TotalMonotonic ==
  response.kind = "ok" => \A e \in reportedTotals : response.totalThoughts.n >= e

\* C6 (amended): a later success response reports a total at least as large as
\* an earlier one's whenever the later submission's declared totalThoughts or
\* thoughtNumber is at least that earlier total.
C6_TotalFollowsSubmission ==
  [][(calls' = calls + 1 /\ response'.kind = "ok")
       => \A e \in reportedTotals :
            (request'.totalThoughts.n >= e \/ request'.thoughtNumber.n >= e)
              => response'.totalThoughts.n >= e]_vars

\* a second success whose declared total is below the first response's total
\* and whose thoughtNumber lifts the reported total above it
C6_Witness ==
  /\ allSucceeded
  /\ response.kind = "ok"
  /\ \E e \in reportedTotals :
       /\ request.totalThoughts.n < e
       /\ request.thoughtNumber.n > e
       /\ response.totalThoughts.n > e

\* the records of the history and of every branch bucket
StoredRecords ==
  {thoughtHistory[i] : i \in DOMAIN thoughtHistory}
    \cup UNION {Range(branches[i].thoughts) : i \in DOMAIN branches}

\* C7: every record in thoughtHistory and in every branch bucket has passed
\* validation: a non-empty string thought, numeric thoughtNumber and
\* totalThoughts, a boolean nextThoughtNeeded.
C7_StoredRecordsValid ==
  \A r \in StoredRecords :
    /\ r.thought.t = "string" /\ r.thought.w # <<>>
    /\ r.thoughtNumber.t = "number"
    /\ r.totalThoughts.t = "number"
    /\ r.nextThoughtNeeded.t = "boolean"

\* a record is in the history and in a branch bucket
C7_Witness ==
  /\ thoughtHistory # <<>>
  /\ \E i \in DOMAIN branches : branches[i].thoughts # <<>>

\* C8: every record in thoughtHistory has a thoughtNumber >= 1.
C8_ThoughtNumbersPositive ==
  \A i \in DOMAIN thoughtHistory : thoughtHistory[i].thoughtNumber.n >= 1

\* C9: the history is append-only: every step leaves the previous history a
\* prefix of the new one, and a successful submission (a revision included)
\* lengthens it by exactly one record.
C9_AppendOnly ==
  [][/\ IsPrefix(thoughtHistory, thoughtHistory')
     /\ (calls' = calls + 1 /\ response'.kind = "ok")
          => Len(thoughtHistory') = Len(thoughtHistory) + 1]_vars

\* a revision of thought 1 was stored behind the record it revises
C9_Witness ==
  /\ response.kind = "ok"
  /\ Len(thoughtHistory) >= 2
  /\ Truthy(thoughtHistory[Len(thoughtHistory)].isRevision)
  /\ thoughtHistory[Len(thoughtHistory)].revisesThought.n = 1

\* the records of the history that carry branch id key, in append order
HistoryOfBranch(key) ==
  LET ofBranch == [i \in DOMAIN thoughtHistory |->
                     Truthy(thoughtHistory[i].branchId) /\ thoughtHistory[i].branchId.s = key]
  IN  KeepAt(thoughtHistory, ofBranch, 1)

\* C10: every stored record whose branchId is set is in the bucket keyed by its
\* branchId and in no other, once per time it was appended and in append order,
\* and every bucket record is in the main history.
C10_BranchBuckets ==
  /\ \A i \in DOMAIN thoughtHistory :
       Truthy(thoughtHistory[i].branchId)
         => HasOwnBranch(branches, thoughtHistory[i].branchId.s)
  /\ \A i, j \in DOMAIN branches : branches[i].id = branches[j].id => i = j
  /\ \A i \in DOMAIN branches : branches[i].thoughts = HistoryOfBranch(branches[i].id)

\* C11: after a successful submission carrying branchFromThought and branchId = b
\* the branches list of that response contains b, and a branch id listed by one
\* success response is listed by every later one: no step removes a branch id,
\* and every success response lists all the branch ids there are.
C11_BranchIdsKept ==
  [][/\ Range(BranchKeys(branches)) \subseteq Range(BranchKeys(branches'))
     /\ (calls' = calls + 1 /\ response'.kind = "ok")
          => /\ Range(response'.branches) = Range(BranchKeys(branches'))
             /\ (Truthy(request'.branchFromThought) /\ Truthy(request'.branchId))
                  => request'.branchId.s \in Range(response'.branches)]_vars

\* a success that branched to "b2" still lists the branch "alt" of an earlier success
C11_Witness ==
  /\ allSucceeded
  /\ response.kind = "ok"
  /\ request.branchId = JsString("b2")
  /\ Truthy(request.branchFromThought)
  /\ response.branches = <<"alt", "b2">>

\* C12: the prompt metadata is initialized once per session and is read-only
\* afterwards: once it is initialized no tool call re-initializes or changes it.
C12_PromptMetadataWriteOnce ==
  [][promptContext.initialized => promptContext' = promptContext]_vars

\* the four phases of the tool's input schema
Phases == {"Planning", "Analysis", "Execution", "Verification"}

\* C13: a submission without a phase is answered and stored with phase Planning
\* if its thoughtNumber is 1 and Execution otherwise; a submission declaring
\* one of the four phases is answered and stored with exactly that phase.
C13_PhaseDefaultedOrKept ==
  response.kind = "ok" =>
    /\ request.phase = JsUndefined =>
         response.phase = IF request.thoughtNumber.n = 1 THEN JsString("Planning")
                                                         ELSE JsString("Execution")
    /\ (request.phase.t = "string" /\ request.phase.s \in Phases) =>
         response.phase = request.phase
    /\ thoughtHistory[Len(thoughtHistory)].phase = response.phase

\* thought 2 of 2 declared as Planning is answered and stored as Planning
C13_Witness ==
  /\ response.kind = "ok"
  /\ request.phase = JsString("Planning")
  /\ request.thoughtNumber.n = 2
  /\ response.phase = JsString("Planning")
  /\ thoughtHistory[Len(thoughtHistory)].phase = JsString("Planning")

\* C14: over successful submissions whose thoughtNumber strictly increases while
\* the declared totalThoughts stays the same, the progress percentage of the
\* responses never decreases.
C14_ProgressMonotonic ==
  [][(calls' = calls + 1 /\ response'.kind = "ok")
       => \A e \in reportedProgress :
            (e.declaredTotal = request'.totalThoughts.n
               /\ e.thoughtNumber < request'.thoughtNumber.n)
              => PercentOf(response'.progress) >= e.percent]_vars


\* p is 100 * k / total rounded to the nearest integer, halves upwards
NearestPercent(p, k, total) ==
  IF total > 0
    THEN (2 * p - 1) * total <= 200 * k /\ 200 * k < (2 * p + 1) * total
    ELSE (2 * p - 1) * total >= 200 * k /\ 200 * k > (2 * p + 1) * total

\* C15: the progress of a success response is the string
\* round(100 * thoughtNumber / adjusted totalThoughts) followed by "%", computed
\* from the current submission alone; thought 1 of 5 on a fresh session is
\* answered with phase "Planning" and progress "20%".
C15_ProgressIsRoundedRatio ==
  response.kind = "ok" =>
    /\ \E p \in 0..200 :
         /\ NearestPercent(p, request.thoughtNumber.n,
                           Max(request.totalThoughts.n, request.thoughtNumber.n))
         /\ response.progress = ToDecimal(p) \o <<"%">>
    /\ (calls = 1 /\ request.thoughtNumber.n = 1 /\ request.totalThoughts.n = 5)
         => (response.phase = JsString("Planning")
               /\ response.progress = <<"2", "0", "%">>)

\* the kinds of guidance, by priority
GuidancePriority ==
  [x \in {"phase-transition", "low-alignment", "strategy", "reasoning-type"} |->
     CASE x = "phase-transition" -> 1
       [] x = "low-alignment"    -> 2
       [] x = "strategy"         -> 3
       [] x = "reasoning-type"   -> 4]

\* the kinds of guidance that apply to the stored record r
ApplicableGuidance(r) ==
  {x \in DOMAIN GuidancePriority :
     CASE x = "phase-transition" ->
            /\ IF r.totalThoughts.n > 0
                 THEN 4 * r.thoughtNumber.n > 3 * r.totalThoughts.n
                 ELSE 4 * r.thoughtNumber.n < 3 * r.totalThoughts.n
            /\ r.phase # JsString("Verification")
       [] x = "low-alignment" ->
            r.promptAlignment.t = "number" /\ r.promptAlignment.n < LowAlignment
       [] x = "strategy" ->
            r.intelligenceRecommendations.present
              /\ r.intelligenceRecommendations.strategies > 0
       [] x = "reasoning-type" ->
            r.intelligenceRecommendations.present
              /\ r.intelligenceRecommendations.reasoningTypes > 0}

\* C16: strategicGuidance of a success response holds at most 2 items, each
\* applicable, in priority order, and an applicable item is left out only when
\* two items of higher priority are in the list.
C16_GuidanceCapped ==
  response.kind = "ok" =>
    /\ Len(response.strategicGuidance) <= 2
    /\ Range(response.strategicGuidance)
         \subseteq ApplicableGuidance(thoughtHistory[Len(thoughtHistory)])
    /\ \A i, j \in DOMAIN response.strategicGuidance :
         i < j => GuidancePriority[response.strategicGuidance[i]]
                    < GuidancePriority[response.strategicGuidance[j]]
    /\ \A x \in ApplicableGuidance(thoughtHistory[Len(thoughtHistory)])
               \ Range(response.strategicGuidance) :
         /\ Len(response.strategicGuidance) = 2
         /\ \A i \in DOMAIN response.strategicGuidance :
              GuidancePriority[response.strategicGuidance[i]] < GuidancePriority[x]

\* the alignment warning and the strategy hint are given, the reasoning-type
\* hint that applies too is left out
C16_Witness ==
  /\ response.kind = "ok"
  /\ response.strategicGuidance = <<"low-alignment", "strategy">>
  /\ "reasoning-type" \in ApplicableGuidance(thoughtHistory[Len(thoughtHistory)])

\* C17: every stored record carries the quality and the insightValue the
\* Quality Assessor computes from it, and its keywords are the extracted ones:
\* no quality, insightValue or keywords of the request payload is stored.
C17_QualityAssessed ==
  \A i \in DOMAIN thoughtHistory :
    /\ thoughtHistory[i].quality = assessThoughtQuality(thoughtHistory[i]).quality
    /\ thoughtHistory[i].insightValue = assessThoughtQuality(thoughtHistory[i]).insightValue
    /\ thoughtHistory[i].keywords = JsWords(extractKeywords(thoughtHistory[i].thought.w))


\* the words of a text: its runs of characters other than white space
WordsIn(text) == Len(TokenStarts(text))

\* the number of entries of the dependencies a record declares
DependencyCount(t) == IF t.dependencies.t = "array" THEN Len(t.dependencies.a) ELSE 0

\* C18: for every record, assessThoughtQuality yields a qualityScore that is
\* an integer in [1,8] equal to round((coherence + depth + relevance) / 3),
\* where coherence is min(8, 5 + dependency count) with dependencies, 3 with
\* none and thoughtNumber > 1, else 5; depth is 3 under 30 words, 8 over 100
\* words, else 5; relevance is 4 when the phase is Planning and thoughtNumber
\* > 3, else 5; and the feedback list is non-empty exactly when one of the
\* three penalties (coherence 3, depth 3, relevance 4) was applied
C18_QualityFormulas ==
  outcome.returned /\ subject \in QualitySubjects =>
    LET q     == outcome.value.quality
        deps  == DependencyCount(subject)
        words == WordsIn(subject.thought.w)
        tn    == subject.thoughtNumber.n
    IN  /\ q.defined
        /\ q.qualityScore \in 1..8
        /\ 6 * q.qualityScore - 3 <= 2 * (q.coherence + q.depth + q.relevance)
        /\ 2 * (q.coherence + q.depth + q.relevance) < 6 * q.qualityScore + 3
        /\ q.coherence = (IF deps > 0 THEN (IF 5 + deps < 8 THEN 5 + deps ELSE 8)
                          ELSE IF tn > 1 THEN 3 ELSE 5)
        /\ q.depth = (IF words < 30 THEN 3 ELSE IF words > 100 THEN 8 ELSE 5)
        /\ q.relevance = (IF subject.phase = JsString("Planning") /\ tn > 3 THEN 4 ELSE 5)
        /\ (q.feedback # <<>>) <=> (q.coherence = 3 \/ q.depth = 3 \/ q.relevance = 4)

\* the tokens of a text: its words in lower case without punctuation
TokensOf(text) == SplitWhitespace(StripPunctuation(ToLowerCase(text)))

\* the position at which a token first occurs
FirstOccurrence(x, tokens) ==
  CHOOSE i \in DOMAIN tokens : tokens[i] = x /\ \A j \in 1..(i - 1) : tokens[j] # x

\* C19: for every text, extractKeywords returns at most 5 distinct lowercase
\* tokens, each longer than 4 characters and none a stopword, ordered by
\* descending frequency in the text, tokens of equal frequency in the order
\* of their first occurrence in the text (tokens made only of digits too)
C19_KeywordsRanked ==
  outcome.returned =>
    LET keywords == outcome.value
        tokens   == TokensOf(subject.w)
    IN  /\ Len(keywords) <= 5
        /\ \A i, j \in DOMAIN keywords : i # j => keywords[i] # keywords[j]
        /\ \A i \in DOMAIN keywords :
             /\ keywords[i] \in Range(tokens)
             /\ ToLowerCase(keywords[i]) = keywords[i]
             /\ Len(keywords[i]) > 4
             /\ keywords[i] \notin StopWords
        /\ \A i, j \in DOMAIN keywords :
             i < j =>
               \/ CountOf(keywords[i], tokens) > CountOf(keywords[j], tokens)
               \/ /\ CountOf(keywords[i], tokens) = CountOf(keywords[j], tokens)
                  /\ FirstOccurrence(keywords[i], tokens) < FirstOccurrence(keywords[j], tokens)

\* the keywords two stored records share
SharedKeywords(earlier, later) == Range(earlier.keywords.a) \cap Range(later.keywords.a)

\* keyword overlap from which detectSemanticRelationships links two thoughts
SignificantOverlap == 2

\* the thought numbers a stored record depends on
DependenciesOf(t) == IF t.dependencies.t = "array" THEN Range(t.dependencies.a) ELSE {}

\* C20: a submission that shares at least 2 extracted keywords with a record
\* already in the history is stored with that record's thoughtNumber among
\* its dependencies, whether the submission declared it or not
C20_ImplicitDependencies ==
  \A i, j \in DOMAIN thoughtHistory :
    i < j /\ Cardinality(SharedKeywords(thoughtHistory[i], thoughtHistory[j])) >= SignificantOverlap
      => thoughtHistory[i].thoughtNumber.n \in DependenciesOf(thoughtHistory[j])

\* the call reaches the contradiction check of processThought
ReachesDetector(args, ext) ==
  /\ ~(IsFirstThought(args) /\ initializeThrows(args.thought, ext))
  /\ validateThoughtData(args).ok
  /\ ~ext.detectorThrows

\* what the detector reports for the submission on the history before the call
Reported(args, ext) == checkContradictions(ThoughtDataOf(args), thoughtHistory, ext)

\* what the tool call appended
Appended == thoughtHistory'[Len(thoughtHistory')]

\* C21: contradiction detection never blocks ingestion: a valid submission
\* for which the detector reports hasContradictions = true is appended to the
\* history with the details as its contradictions field and gets a success
\* response, and the detector is given the history as it was before the append
C21_ContradictionsNeverBlock ==
  [][\A call \in Calls :
       /\ CallSequentialThinking(call[1], call[2])
       /\ ReachesDetector(call[1], call[2])
       /\ Reported(call[1], call[2]).hasContradictions
       => /\ Len(thoughtHistory') = Len(thoughtHistory) + 1
          /\ IsPrefix(thoughtHistory, thoughtHistory')
          /\ Appended.contradictions = Reported(call[1], call[2]).details
          /\ response'.kind = "ok"]_vars

\* the record or response carries none of the alignment fields
NoAlignmentFields(x) ==
  /\ x.promptAlignment = JsUndefined
  /\ x.driftWarning = JsUndefined

\* C22: while the prompt metadata has not been initialized, every stored
\* record and every success response has no promptAlignment, promptRelevance
\* or driftWarning at all; the fields are present only on submissions
\* processed after the initialization
C22_AlignmentOmitted ==
  ~promptContext.initialized =>
    /\ \A i \in DOMAIN thoughtHistory :
         /\ NoAlignmentFields(thoughtHistory[i])
         /\ thoughtHistory[i].promptRelevance = JsUndefined
    /\ response.kind = "ok" => NoAlignmentFields(response)

\* a submission was stored and answered before the prompt metadata existed
C22_Witness ==
  /\ ~promptContext.initialized
  /\ thoughtHistory # <<>>
  /\ response.kind = "ok"

\* the calls of the handler that have stored their record, in the order of
\* their invocation
RECURSIVE StoredInOrder(_, _)
StoredInOrder(acts, i) ==
  IF i > Len(acts) THEN <<>>
  ELSE (IF acts[i].pc = "done" /\ validateThoughtData(acts[i].args).ok
          THEN <<acts[i].thought>> ELSE <<>>)
       \o StoredInOrder(acts, i + 1)

\* C23: tool calls are processed one at a time: a call of the handler
\* validates, enriches, stores and answers without yielding, so the steps of
\* two submissions never interleave and the records of thoughtHistory are in
\* the order in which the handler was invoked
C23_OneAtATime ==
  /\ \A i, j \in DOMAIN activations :
       i # j => activations[i].pc = "done" \/ activations[j].pc = "done"
  /\ \A i, j \in DOMAIN activations :
       i < j /\ activations[j].pc # "validate" => activations[i].pc = "done"
  /\ thoughtHistory = StoredInOrder(activations, 1)

\* a second call has stored its record after the first
C23_Witness ==
  /\ Len(activations) = 2
  /\ Len(thoughtHistory) = 2
  /\ activations[2].pc = "done"
  /\ activations[1].args # activations[2].args

\* the trend of the scores of the records submitted last, first to last
TrendBySubmission(history) ==
  LET scored == SelectSeq(history, HasAlignment)
      recent == LastOf(scored, 5)
      change == recent[Len(recent)].promptAlignment.n - recent[1].promptAlignment.n
  IN  IF Len(scored) < 3 THEN "Insufficient data"
      ELSE IF change > 1 THEN "Improving"
      ELSE IF change < -1 THEN "Declining"
      ELSE "Stable"

\* C24: the alignment trend is "Insufficient data" with fewer than 3
\* alignment-scored records; otherwise it compares the first and the last of
\* the 5 most recently submitted alignment-scored records: Improving when
\* last - first > 1, Declining when last - first < -1, else Stable, also when
\* records were submitted out of thoughtNumber order or reuse a thoughtNumber
C24_TrendOfRecentSubmissions ==
  outcome.returned =>
    /\ outcome.value.server = TrendBySubmission(subject)
    /\ outcome.value.renderer = TrendBySubmission(subject)

\* the estimate the specification gives for overall progress p, latest
\* thoughtNumber n and a complexity
SpecifiedEstimate(p, n, complexity) ==
  IF p < 10 THEN (CASE complexity = "simple" -> 5 [] complexity = "medium" -> 8 [] OTHER -> 12)
  ELSE Max(0, ((n * 100 + p - 1) \div p) - n)

\* C25: on every history and metadata on which both estimates are defined,
\* the server's estimateRemainingThoughts is the fallback 5, 8 or 12 when the
\* overall progress is below 10 and otherwise ceil(n * 100 / progress) - n,
\* never below 0, for the highest stored thoughtNumber n, and the renderer's
\* estimateCompletion returns the same number.
C25_EstimatesAgree ==
  (/\ outcome.returned
   /\ outcome.value.server.kind = "number"
   /\ outcome.value.renderer.kind = "number")
  => /\ outcome.value.server.n >= 0
     /\ subject.metadata.present /\ Len(subject.thoughts) > 0 =>
          outcome.value.server.n =
            SpecifiedEstimate(calculateOverallProgress(subject.thoughts, subject.metadata),
                              LatestThought(subject.thoughts).thoughtNumber.n,
                              subject.metadata.complexity)
     /\ outcome.value.renderer.n = outcome.value.server.n
\* what processThought answers to a submission on the server as constructed
FreshResponse(args, ext) ==
  processThought(args, <<>>, <<>>, ContextFor(args, NewPromptContext), ext).response

\* every call so far was answered with an error
OnlyFailures == calls > 0 /\ reportedProgress = {}

\* C26: a submission that ends in an error response has no effect on later
\* submissions: after any number of failed calls, a submission that succeeds
\* on the server as constructed still succeeds, with the same response.
C26_FailuresLeaveNoTrace ==
  [][\A call \in Calls :
       (/\ OnlyFailures
        /\ CallSequentialThinking(call[1], call[2])
        /\ ~(IsFirstThought(call[1]) /\ initializeThrows(call[1].thought, call[2]))
        /\ FreshResponse(call[1], call[2]).kind = "ok")
       => response' = FreshResponse(call[1], call[2])]_vars
\* C27: a tool call whose submission is rejected with an error response leaves
\* the prompt metadata as it was: it neither initializes nor replaces it.
C27_RejectionKeepsMetadata ==
  [][\A call \in Calls :
       (CallSequentialThinking(call[1], call[2]) /\ response'.kind = "error")
       => promptContext' = promptContext]_vars
\* C28: in every reachable state the renderer's grouping of the history by
\* branch is the server's branch index: the same branch ids, those of the
\* branches list of the response, and for each id the same records in the
\* same order.
C28_GroupingIsBranchIndex ==
  ~groupThoughtsByBranchThrows(thoughtHistory) =>
    /\ groupThoughtsByBranch(thoughtHistory) = branches
    /\ response.kind = "ok" =>
         response.branches = BranchKeys(groupThoughtsByBranch(thoughtHistory))
\* the record whose progress processThought computes for the last request
Progressing == AutoAdjust(ThoughtDataOf(request))

\* 0 <= (thoughtNumber / totalThoughts) * 100 <= 100
ProgressInRange(t) ==
  IF t.totalThoughts.n > 0
    THEN 0 <= t.thoughtNumber.n /\ t.thoughtNumber.n <= t.totalThoughts.n
    ELSE t.totalThoughts.n <= t.thoughtNumber.n /\ t.thoughtNumber.n <= 0

\* C30: for every submission the validator accepts, the progress computed by
\* processThought lies between 0 and 100, the progress bar has 20 cells (the
\* completed and the remaining ones are both non-negative and add up to 20)
\* and the response reports a percentage between 0% and 100%.
C30_ProgressWithinBounds ==
  (response.kind \in {"ok", "error"} /\ validateThoughtData(request).ok)
  => /\ ProgressInRange(Progressing)
     /\ CompletedCells(Progressing) >= 0
     /\ BarWidth - CompletedCells(Progressing) >= 0
     /\ response.kind = "ok" =>
          /\ PercentOf(response.progress) >= 0
          /\ PercentOf(response.progress) <= 100
\* simple < medium < complex
Rank(complexity) ==
  CASE complexity = "simple" -> 1 [] complexity = "medium" -> 2 [] OTHER -> 3

\* the complexity of a state with so many records, revisions and branches
ComplexityOf(records, revisions, branchCount) ==
  IF records > 10 \/ branchCount > 2 THEN "complex"
  ELSE IF records > 5 \/ revisions > 1 \/ branchCount >= 1 THEN "medium"
  ELSE "simple"

\* the complexity of the server's state as it is
StateComplexity(history, br) ==
  ComplexityOf(Len(history),
               Cardinality({i \in DOMAIN history : Truthy(history[i].isRevision)}),
               Len(br))

\* the last call was a successful submission without a complexity
Estimating == response.kind = "ok" /\ ~Truthy(request.complexity)

\* C29: the response to a submission without a complexity carries the
\* complexity of the state after the record is stored (complex with more than
\* 10 records or more than 2 branches, medium with more than 5 records, more
\* than 1 revision or at least 1 branch, else simple), and that complexity
\* never decreases from one state to the next, so neither does it over a
\* sequence of such submissions.
C29_ComplexityEstimated ==
  /\ [](Estimating =>
          response.complexity = JsString(StateComplexity(thoughtHistory, branches)))
  /\ [][Rank(StateComplexity(thoughtHistory', branches'))
          >= Rank(StateComplexity(thoughtHistory, branches))]_vars
  /\ [][(Estimating /\ Estimating')
          => Rank(response'.complexity.s) >= Rank(response.complexity.s)]_vars

\* a third branch is opened by a submission without a complexity, which is
\* answered with complex after an answer of medium
C29_Witness ==
  /\ calls = 2
  /\ Estimating
  /\ Len(branches) = 3
  /\ response.complexity = JsString("complex")
====
